---------------------------- MODULE Spec2Model ----------------------------
(***************************************************************************)
(* Model of the evidence-grounding pipeline of aid-aliu/multi-agent:       *)
(*   retrieval/query_index.py   query_index                                *)
(*   agents/research_agent.py   EvidenceStore, ResearchAgent.search        *)
(*   agents/writer_agent.py     write_deliverable                          *)
(*   agents/verifier_agent.py   verify_deliverable                         *)
(*   app/main.py                _merge_research_results, run               *)
(*                                                                         *)
(* Conventions.  Distances are integers in hundredths (0.60 is 60).  A     *)
(* Python string that the code inspects is a sequence of tokens: words,    *)
(* whitespace and evidence labels "E<digits>"; a chunk text is abstracted  *)
(* to its stripped length.  A JSON value is a record [t, s, kids]: t is    *)
(* its type, s its tokens (strings), kids its members (lists and dicts,    *)
(* a dict member carrying its key k).  A Python exception leaving a        *)
(* function is the status "raise" of the operator that models it.          *)
(***************************************************************************)
EXTENDS Integers, Sequences, FiniteSets, TLC

VARIABLES
    pc,          \* run: the position of the orchestrator
    trace,       \* run: the trace list, one [agent, status] entry per stage
    questions,   \* run: research_questions[:3] (TRUE = a non-blank question)
    results,     \* run: research_results
    research_out,\* run: the merged research output
    writer_out,  \* run: write_deliverable's output
    verified,    \* run: verify_deliverable's output
    ret,         \* run: the dict run returns
    calls,       \* run: how often each stage was invoked
    store,       \* the EvidenceStore object (its file and its _chunks cache)
    h_arg,       \* unit harness: the arguments of the function under check
    h_res,       \* unit harness: what the function returned
    h_pc         \* unit harness: position

runvars == <<pc, trace, questions, results, research_out, writer_out,
             verified, ret, calls>>
hvars == <<h_arg, h_res, h_pc>>
vars == <<pc, trace, questions, results, research_out, writer_out,
          verified, ret, calls, store, h_arg, h_res, h_pc>>

NOT_FOUND == "Not found in sources."

Range(s) == {s[i] : i \in DOMAIN s}

(***************************************************************************)
(* Bounds of the model.                                                    *)
(***************************************************************************)
MaxRaw == 3        \* neighbours the vector index returns for one query
MaxTopK == 2       \* largest top_k the search harness tries
MaxIdx == 2        \* largest chunk index the vector index knows

(***************************************************************************)
(* Program constants.                                                      *)
(***************************************************************************)
TOP_K == 6
distance_threshold == 60
max_chars == 1400

(***************************************************************************)
(* retrieval/query_index.py                                                *)
(***************************************************************************)
\* The hits query_index builds from the index's (indices, distances): the
\* entries with idx < 0 are skipped, each kept entry gets rank len(out) + 1,
\* and the loop stops once top_k entries are kept (the test follows the
\* append, so one entry is kept even for top_k <= 0).
RECURSIVE query_index_loop(_, _, _)
query_index_loop(raw, top_k, out) ==
    IF raw = <<>> THEN out
    ELSE IF Head(raw).idx < 0 THEN query_index_loop(Tail(raw), top_k, out)
    ELSE LET out2 == Append(out, [rank |-> Len(out) + 1,
                                  idx |-> Head(raw).idx,
                                  distance |-> Head(raw).dist])
         IN IF Len(out2) >= top_k THEN out2
            ELSE query_index_loop(Tail(raw), top_k, out2)

\* Mutant of query_index: hits over the threshold are left out.
query_index_within(raw, top_k) ==
    SelectSeq(query_index_loop(raw, top_k, <<>>),
              LAMBDA h : h.distance <= distance_threshold)

query_index(raw, top_k) == query_index_loop(raw, top_k, <<>>)

(***************************************************************************)
(* agents/research_agent.py: EvidenceStore                                 *)
(***************************************************************************)
\* A chunk file is a sequence of lines; a line is a row [kind |-> "row", n],
\* n the length of its stripped text (0: no text, or only whitespace), a
\* blank line or a malformed line.
Line(kind, n) == [kind |-> kind, n |-> n]

\* EvidenceStore.__init__: nothing is loaded yet.
EvidenceStore(exists, lines) ==
    [exists |-> exists, lines |-> lines, loaded |-> FALSE, chunks |-> <<>>,
     loads |-> 0]

\* EvidenceStore.load: a no-op once _chunks is set; otherwise the file is
\* read, blank and malformed lines are skipped, and a missing file raises.
load_rows(lines) == SelectSeq(lines, LAMBDA l : l.kind = "row")

load(st) ==
    IF st.loaded THEN [raised |-> FALSE, st |-> st]
    ELSE IF ~st.exists THEN [raised |-> TRUE, st |-> st]
    ELSE [raised |-> FALSE,
          st |-> [st EXCEPT !.loaded = TRUE, !.chunks = load_rows(st.lines),
                            !.loads = @ + 1]]

\* EvidenceStore.get_text_and_meta after load(): "IndexError" or the row.
get_text_and_meta(st, idx) ==
    IF idx < 0 \/ idx >= Len(st.chunks)
    THEN [err |-> "IndexError", row |-> Line("row", 0)]
    ELSE [err |-> "", row |-> st.chunks[idx + 1]]

(***************************************************************************)
(* agents/research_agent.py: ResearchAgent                                 *)
(***************************************************************************)
\* Evidence.to_dict: the citation is derived from the chunk's place.
Evidence(idx, rank, distance, n) ==
    [idx |-> idx, rank |-> rank, distance |-> distance,
     n |-> IF n > max_chars THEN max_chars + 1 ELSE n,
     citation |-> idx]

\* Mutant of _gate_not_found: the comparison includes the threshold.
_gate_not_found_ge(hits, threshold) ==
    IF hits = <<>> THEN NOT_FOUND
    ELSE IF hits[1].distance >= threshold THEN NOT_FOUND
    ELSE ""

\* ResearchAgent._gate_not_found: the message, or "" for None.
_gate_not_found(hits, threshold) ==
    IF hits = <<>> THEN NOT_FOUND
    ELSE IF hits[1].distance > threshold THEN NOT_FOUND
    ELSE ""

\* A stage's output dict; t tells a dict ("dict") from the empty dict
\* ("empty") and from None ("none").
SearchResult(status, message, evidence) ==
    [t |-> "dict", status |-> status, message |-> message,
     evidence |-> evidence]

\* The loop of search over the hits: out-of-range chunks and chunks without
\* text are dropped; the first access loads the store and a missing file
\* raises out of search.
RECURSIVE resolve_hits(_, _, _)
resolve_hits(hits, st, blocks) ==
    IF hits = <<>> THEN [raised |-> FALSE, st |-> st, blocks |-> blocks]
    ELSE LET ld == load(st) IN
         IF ld.raised THEN [raised |-> TRUE, st |-> st, blocks |-> blocks]
         ELSE LET got == get_text_and_meta(ld.st, Head(hits).idx) IN
              IF got.err # "" \/ got.row.n = 0
              THEN resolve_hits(Tail(hits), ld.st, blocks)
              ELSE resolve_hits(Tail(hits), ld.st,
                       Append(blocks, Evidence(Head(hits).idx, Head(hits).rank,
                                               Head(hits).distance, got.row.n)))

\* Mutant of search_result: no test for an empty list of blocks.
search_result_unchecked(blocks) == SearchResult("found", "", blocks)

\* What search does with the evidence blocks it collected.
search_result(blocks) ==
    IF blocks = <<>>
    THEN SearchResult("not_found",
             "No valid evidence could be extracted from search results.", <<>>)
    ELSE SearchResult("found", "", blocks)

\* ResearchAgent.search.  q is the outcome of the external query: q.fails
\* (embedding or index error) or q.raw, the neighbours by ascending distance.
search(nonblank, q, top_k, threshold, st) ==
    IF ~nonblank
    THEN [res |-> SearchResult("not_found", "Empty query provided.", <<>>),
          st |-> st]
    ELSE IF q.fails
    THEN [res |-> SearchResult("error", "Vector search failed", <<>>), st |-> st]
    ELSE LET hits == query_index(q.raw, top_k)
             msg == _gate_not_found(hits, threshold)
         IN IF msg # ""
            THEN [res |-> SearchResult("not_found", msg, <<>>), st |-> st]
            ELSE LET r == resolve_hits(hits, st, <<>>) IN
                 IF r.raised
                 THEN [res |-> SearchResult("raise", "", <<>>), st |-> r.st]
                 ELSE [res |-> search_result(r.blocks), st |-> r.st]

(***************************************************************************)
(* JSON values and Python strings                                          *)
(***************************************************************************)
\* Tokens of a string: a word, a run of whitespace, an evidence label
\* "E<digits>" standing as a word of its own (what \bE(\d+)\b matches).
Word(w) == [ref |-> FALSE, w |-> w, d |-> <<>>]
Sp == Word(" ")
Ref(digits) == [ref |-> TRUE, w |-> "E", d |-> digits]

JNull == [t |-> "null", s |-> <<>>, kids |-> <<>>]
JStr(toks) == [t |-> "str", s |-> toks, kids |-> <<>>]
JNum(nonzero) ==
    [t |-> "num", s |-> IF nonzero THEN <<Word("1")>> ELSE <<>>, kids |-> <<>>]
KV(k, v) == [k |-> k, val |-> v]
RECURSIVE Items(_)
Items(vs) == IF vs = <<>> THEN <<>> ELSE <<KV("", Head(vs))>> \o Items(Tail(vs))
JList(vs) == [t |-> "list", s |-> <<>>, kids |-> Items(vs)]
JDict(kvs) == [t |-> "dict", s |-> <<>>, kids |-> kvs]

\* Python truthiness: None, "", 0, [] and {} are falsy.
\* Mutant of Truthy: only None is false.
Truthy_not_none(j) == j.t # "null"
Truthy(j) == j.t # "null" /\ (j.s # <<>> \/ j.kids # <<>>)

\* key in d, d.get(key) (None when absent) and d[key] = v (a new key goes
\* last, an existing one keeps its place).
Has(d, k) == \E i \in DOMAIN d.kids : d.kids[i].k = k
Get(d, k) ==
    IF Has(d, k)
    THEN d.kids[CHOOSE i \in DOMAIN d.kids : d.kids[i].k = k].val
    ELSE JNull
Put(d, k, v) ==
    IF Has(d, k)
    THEN [d EXCEPT !.kids = [i \in DOMAIN d.kids |->
                               IF d.kids[i].k = k THEN KV(k, v) ELSE d.kids[i]]]
    ELSE [d EXCEPT !.kids = Append(@, KV(k, v))]

\* str.lower() on the words the model uses.
Lower(w) ==
    CASE w = "Not" -> "not"
      [] w = "NOT" -> "not"
      [] w = "Found" -> "found"
      [] w = "FOUND" -> "found"
      [] w = "IN" -> "in"
      [] w = "Sources." -> "sources."
      [] w = "SOURCES." -> "sources."
      [] w = "High" -> "high"
      [] w = "HIGH" -> "high"
      [] OTHER -> w
LowerTok(tk) == IF tk.ref THEN [tk EXCEPT !.w = "e"] ELSE [tk EXCEPT !.w = Lower(@)]
LowerStr(toks) == [i \in DOMAIN toks |-> LowerTok(toks[i])]

\* str.strip(): leading and trailing whitespace tokens removed.
RECURSIVE LStrip(_)
LStrip(toks) ==
    IF toks # <<>> /\ Head(toks) = Sp THEN LStrip(Tail(toks)) ELSE toks
RECURSIVE RStrip(_)
RStrip(toks) ==
    IF toks # <<>> /\ toks[Len(toks)] = Sp
    THEN RStrip(SubSeq(toks, 1, Len(toks) - 1)) ELSE toks
Strip(toks) == RStrip(LStrip(toks))

\* len(str.split()): the number of maximal runs of non-whitespace tokens.
WordCount(toks) ==
    Cardinality({i \in DOMAIN toks :
                   toks[i] # Sp /\ (i = 1 \/ toks[i - 1] = Sp)})

\* "Not found in sources." and the label "E<i>" as token strings.
SentinelToks == <<Word("Not"), Sp, Word("found"), Sp, Word("in"), Sp,
                  Word("sources.")>>
RECURSIVE Digits(_)
Digits(i) == IF i < 10 THEN <<i>> ELSE Append(Digits(i \div 10), i % 10)
Label(i) == Ref(Digits(i))

(***************************************************************************)
(* app/main.py: _merge_research_results                                    *)
(***************************************************************************)
\* The evidence of the found results, concatenated in the order asked.
RECURSIVE all_evidence(_)
all_evidence(found) ==
    IF found = <<>> THEN <<>>
    ELSE Head(found).evidence \o all_evidence(Tail(found))

\* Mutant of unique_evidence: nothing is dropped.
unique_evidence_all(evs, seen_idx) == evs

\* Deduplication on idx: an item is kept unless its idx was seen before.
RECURSIVE unique_evidence(_, _)
unique_evidence(evs, seen_idx) ==
    IF evs = <<>> THEN <<>>
    ELSE IF Head(evs).idx \in seen_idx
         THEN unique_evidence(Tail(evs), seen_idx)
         ELSE <<Head(evs)>>
              \o unique_evidence(Tail(evs), seen_idx \cup {Head(evs).idx})

found_results(rs) == SelectSeq(rs, LAMBDA r : r.status = "found")

\* Mutant of _merge_research_results: one result that is not found makes
\* the merged result not found.
_merge_research_results_strict(rs) ==
    IF rs = <<>>
    THEN SearchResult("not_found", "No research results to merge", <<>>)
    ELSE IF found_results(rs) # rs
    THEN SearchResult("not_found", NOT_FOUND, <<>>)
    ELSE SearchResult("found", "", unique_evidence(all_evidence(rs), {}))

_merge_research_results(rs) ==
    IF rs = <<>>
    THEN SearchResult("not_found", "No research results to merge", <<>>)
    ELSE IF found_results(rs) = <<>>
    THEN SearchResult("not_found", NOT_FOUND, <<>>)
    ELSE SearchResult("found", "",
             unique_evidence(all_evidence(found_results(rs)), {}))

(***************************************************************************)
(* agents/writer_agent.py                                                  *)
(***************************************************************************)
MAX_ITEMS == 8
max_retries == 2

\* A citation string "<doc> | ... | chunk <idx>" and the fallback text.
ChunkTok(idx) == [ref |-> FALSE, w |-> "chunk", d |-> Digits(idx)]
CitationStr(idx) == JStr(<<Word("doc"), Sp, ChunkTok(idx)>>)
UnknownSource == JStr(<<Word("Unknown"), Sp, Word("source")>>)

\* Mutant of _build_evidence_context: every item is rendered.
_build_evidence_context_uncut(evidence, max_items) ==
    LET RECURSIVE blocks(_)
        blocks(i) ==
            IF i > Len(evidence) THEN <<>>
            ELSE IF evidence[i].n > 0
            THEN <<[label |-> Label(i),
                    citation |-> IF evidence[i].citation >= 0
                                 THEN CitationStr(evidence[i].citation)
                                 ELSE UnknownSource,
                    n |-> evidence[i].n]>> \o blocks(i + 1)
            ELSE blocks(i + 1)
    IN blocks(1)

\* _build_evidence_context: the first max_items items, item i labelled E<i>,
\* an item without text left out; the context is the list of its blocks.
_build_evidence_context(evidence, max_items) ==
    LET ev == SubSeq(evidence, 1,
                     IF Len(evidence) < max_items THEN Len(evidence)
                     ELSE max_items)
        block(i) == [label |-> Label(i),
                     citation |-> IF ev[i].citation >= 0
                                  THEN CitationStr(ev[i].citation)
                                  ELSE IF ev[i].idx > 0
                                  THEN CitationStr(ev[i].idx)
                                  ELSE UnknownSource,
                     n |-> ev[i].n]
        RECURSIVE blocks(_)
        blocks(i) == IF i > Len(ev) THEN <<>>
                     ELSE IF ev[i].n > 0 THEN <<block(i)>> \o blocks(i + 1)
                     ELSE blocks(i + 1)
    IN blocks(1)

\* _ollama_chat: script[a] is what HTTP attempt a meets: "ok" (a response
\* with message.content), "timeout", "conn" (connection refused), "http"
\* (raise_for_status fails), "malformed" (a response without
\* message.content).  A timeout goes on to the next attempt, every other
\* exception the loop catches breaks it, and the loop's end raises
\* RuntimeError.  The planner's loop catches every Exception; the writer's
\* catches RequestException only, so the KeyError of a malformed response
\* leaves the writer's function as it is.  posts counts the requests made,
\* exc names the exception raised.
Outcomes == {"ok", "timeout", "conn", "http", "malformed"}
\* Mutant of retryable: every failed attempt is tried again.
retryable_any(outcome) == outcome # "ok"
retryable(outcome) == outcome = "timeout"
uncaught(outcome, agent) == outcome = "malformed" /\ agent = "writer"

ChatResult(raised, posts, exc) ==
    [raised |-> raised, posts |-> posts, exc |-> exc]
RECURSIVE chat_loop(_, _, _, _)
chat_loop(script, attempt, retries, agent) ==
    IF attempt >= retries THEN ChatResult(TRUE, attempt, "RuntimeError")
    ELSE IF script[attempt + 1] = "ok"
    THEN ChatResult(FALSE, attempt + 1, "")
    ELSE IF retryable(script[attempt + 1])
    THEN chat_loop(script, attempt + 1, retries, agent)
    ELSE IF uncaught(script[attempt + 1], agent)
    THEN ChatResult(TRUE, attempt + 1, "KeyError")
    ELSE ChatResult(TRUE, attempt + 1, "RuntimeError")

_ollama_chat(script) == chat_loop(script, 0, max_retries, "writer")
planner_ollama_chat(script) == chat_loop(script, 0, max_retries, "planner")

\* _safe_json_load: raw.form tells how the text carries its JSON value:
\* "json" parses directly, "fenced" after the code fence is removed,
\* "braces" between the first { and the last }; anything else is None.
_safe_json_load(raw) ==
    IF raw.form \in {"json", "fenced", "braces"} THEN raw.payload ELSE JNull

\* The sources write_deliverable builds: one per item of evidence[:8].
sources_of(evidence) ==
    LET max_items == IF Len(evidence) < MAX_ITEMS THEN Len(evidence)
                     ELSE MAX_ITEMS
    IN JList([i \in 1..max_items |->
                JDict(<<KV("evidence_ref", JStr(<<Label(i)>>)),
                        KV("citation",
                           IF evidence[i].citation >= 0
                           THEN CitationStr(evidence[i].citation)
                           ELSE UnknownSource)>>)])

WriterOut(status, message, deliverable) ==
    [t |-> "dict", status |-> status, message |-> message,
     deliverable |-> deliverable]

\* Mutant of precheck: the research status is not looked at.
precheck_no_status(ro) ==
    IF ro.t # "dict"
    THEN WriterOut("error", "Invalid research_output", JNull)
    ELSE IF ro.evidence = <<>>
    THEN WriterOut("not_found", "No evidence provided in research output.",
                   JNull)
    ELSE IF _build_evidence_context(ro.evidence, MAX_ITEMS) = <<>>
    THEN WriterOut("error", "Could not build evidence context", JNull)
    ELSE WriterOut("", "", JNull)

\* The input checks of write_deliverable: the output it returns before any
\* use of the generator, or status "" to go on.  A research_output that is
\* None or the empty dict is refused.
precheck(ro) ==
    IF ro.t # "dict"
    THEN WriterOut("error", "Invalid research_output", JNull)
    ELSE IF ro.status # "found"
    THEN WriterOut("not_found", NOT_FOUND, JNull)
    ELSE IF ro.evidence = <<>>
    THEN WriterOut("not_found", "No evidence provided in research output.",
                   JNull)
    ELSE IF _build_evidence_context(ro.evidence, MAX_ITEMS) = <<>>
    THEN WriterOut("error", "Could not build evidence context", JNull)
    ELSE WriterOut("", "", JNull)

\* write_deliverable.  gen is what the external generator does: gen.script
\* per HTTP attempt and gen.raw, the text of a successful response.  An
\* exception of _ollama_chat is caught; the assignment of "sources" raises
\* TypeError out of the function when the parsed value is no dict.
\* context is the evidence context of the prompt (empty: no prompt made).
write_deliverable(ro, gen) ==
    IF precheck(ro).status # ""
    THEN [out |-> precheck(ro), posts |-> 0, context |-> <<>>]
    ELSE LET evidence_context == _build_evidence_context(ro.evidence, MAX_ITEMS)
             chat == _ollama_chat(gen.script)
             payload == _safe_json_load(gen.raw)
         IN IF chat.raised
            THEN [out |-> WriterOut("error", "Failed to communicate with LLM",
                                    JNull),
                  posts |-> chat.posts, context |-> evidence_context]
            ELSE IF payload.t = "null"
            THEN [out |-> WriterOut("error",
                              "Writer model did not return valid JSON.", JNull),
                  posts |-> chat.posts, context |-> evidence_context]
            ELSE IF payload.t # "dict"
            THEN [out |-> WriterOut("raise", "TypeError", JNull),
                  posts |-> chat.posts, context |-> evidence_context]
            ELSE [out |-> WriterOut("ok", "",
                              Put(payload, "sources", sources_of(ro.evidence))),
                  posts |-> chat.posts, context |-> evidence_context]

(***************************************************************************)
(* agents/verifier_agent.py                                                *)
(***************************************************************************)
MAX_SUMMARY_WORDS == 150

\* _collect_evidence_refs: walk dict values and list items; in a string,
\* every match of \bE(\d+)\b.  Keys, numbers and None are not looked at.
RECURSIVE _collect_evidence_refs(_)
_collect_evidence_refs(x) ==
    IF x.t \in {"dict", "list"}
    THEN UNION {_collect_evidence_refs(x.kids[i].val) : i \in DOMAIN x.kids}
    ELSE IF x.t = "str"
    THEN {x.s[i] : i \in {j \in DOMAIN x.s : x.s[j].ref}}
    ELSE {}

\* Mutant of _valid_ref_set: the range starts at 0.
_valid_ref_set_from_zero(evidence) ==
    IF evidence = <<>> THEN {} ELSE {Label(i) : i \in 0..Len(evidence)}

\* Mutant of _valid_ref_set: only the labels the writer can show.
_valid_ref_set_shown(evidence) ==
    {Label(i) : i \in 1..(IF Len(evidence) < 8 THEN Len(evidence) ELSE 8)}

\* _valid_ref_set: the labels E1..En.
_valid_ref_set(evidence) ==
    IF evidence = <<>> THEN {} ELSE {Label(i) : i \in 1..Len(evidence)}

\* Mutant of _default_due_date: the fill is a blank string.
_default_due_date_blank == JStr(<<>>)
_default_due_date == JStr(SentinelToks)

\* Mutant of _is_not_found_text: the text is not lower-cased.
_is_not_found_text_cased(x) ==
    x.t = "str" /\ Strip(x.s) = LowerStr(SentinelToks)

\* _is_not_found_text: a string that stripped and lower-cased is the sentinel.
_is_not_found_text(x) ==
    x.t = "str" /\ LowerStr(Strip(x.s)) = LowerStr(SentinelToks)

\* sorted() of a set of labels: by their text, digit by digit.
RECURSIVE LexLess(_, _)
LexLess(a, b) ==
    IF a = <<>> THEN b # <<>>
    ELSE IF b = <<>> THEN FALSE
    ELSE IF Head(a) # Head(b) THEN Head(a) < Head(b)
    ELSE LexLess(Tail(a), Tail(b))
RECURSIVE Sorted(_)
Sorted(refs) ==
    IF refs = {} THEN <<>>
    ELSE LET m == CHOOSE r \in refs :
                      \A o \in refs \ {r} : LexLess(r.d, o.d)
         IN <<m>> \o Sorted(refs \ {m})

\* An issue; i is the action it is about (0: none), refs the labels its
\* detail lists.
Issue(type, severity, i, refs) ==
    [type |-> type, severity |-> severity, i |-> i, refs |-> refs]

Verified(status, message, issues, deliverable) ==
    [t |-> "dict", status |-> status, message |-> message, issues |-> issues,
     deliverable |-> deliverable]

\* The required-field loop.
required_fields == <<"executive_summary", "client_ready_email",
                     "action_list", "sources">>
required_issues(d) ==
    LET miss == SelectSeq(required_fields, LAMBDA f : ~Has(d, f))
    IN [i \in DOMAIN miss |-> Issue("missing_required_field", "error", 0, <<>>)]

\* The executive summary checks.
summary_issues(d) ==
    LET es == Get(d, "executive_summary") IN
    IF _is_not_found_text(es)
    THEN <<Issue("invalid_not_found_executive_summary", "error", 0, <<>>)>>
    ELSE IF es.t = "str"
    THEN IF WordCount(es.s) > MAX_SUMMARY_WORDS
         THEN <<Issue("executive_summary_too_long", "error", 0, <<>>)>>
         ELSE <<>>
    ELSE <<Issue("missing_or_invalid_executive_summary", "error", 0, <<>>)>>

\* The email checks; an email that is no dict is looked at as {}.
email_issues(d) ==
    LET given == Get(d, "client_ready_email")
        email == IF given.t = "dict" THEN given ELSE JDict(<<>>)
    IN (IF given.t # "dict"
        THEN <<Issue("invalid_email_structure", "error", 0, <<>>)>> ELSE <<>>)
       \o (IF _is_not_found_text(Get(email, "subject"))
           THEN <<Issue("invalid_not_found_email_subject", "error", 0, <<>>)>>
           ELSE <<>>)
       \o (IF _is_not_found_text(Get(email, "body"))
           THEN <<Issue("invalid_not_found_email_body", "error", 0, <<>>)>>
           ELSE <<>>)
       \o (IF ~Has(email, "subject")
           THEN <<Issue("missing_email_subject", "warning", 0, <<>>)>>
           ELSE <<>>)
       \o (IF ~Has(email, "body")
           THEN <<Issue("missing_email_body", "warning", 0, <<>>)>>
           ELSE <<>>)

\* The global evidence-reference check.
bad_refs(d, valid_refs) ==
    Sorted({r \in _collect_evidence_refs(d) : r \notin valid_refs})
global_ref_issues(d, valid_refs) ==
    IF bad_refs(d, valid_refs) # <<>>
    THEN <<Issue("invalid_evidence_ref", "error", 0, bad_refs(d, valid_refs))>>
    ELSE <<>>

\* The checks of one action, in the order of the loop body; each of the
\* first three ends the iteration (continue).  "r not in valid_refs" raises
\* TypeError on an unhashable r, and .lower() raises AttributeError on a
\* truthy confidence that is no string.  The due_date of an action that
\* gets this far is filled in place.
confidence_values == {<<Word("high")>>, <<Word("medium")>>, <<Word("low")>>}

\* Mutant of missing_due_date: a whitespace-only string counts as a date.
missing_due_date_falsy(a) == ~Truthy(Get(a, "due_date"))

\* The test of the due_date of an action.
missing_due_date(a) ==
    LET due_date == Get(a, "due_date") IN
    ~Truthy(due_date) \/ (due_date.t = "str" /\ Strip(due_date.s) = <<>>)

\* Mutant of fill_due_date: every action's due_date is overwritten.
fill_due_date_always(a) == Put(a, "due_date", _default_due_date)

\* action["due_date"] = _default_due_date() under its test.
fill_due_date(a) ==
    IF missing_due_date(a) THEN Put(a, "due_date", _default_due_date) ELSE a

check_action(a, i, valid_refs) ==
    LET refs == Get(a, "evidence_refs")
        conf == Get(a, "confidence")
        unknown == SelectSeq([k \in DOMAIN refs.kids |-> refs.kids[k].val],
                       LAMBDA r : ~(r.t = "str" /\ Len(r.s) = 1
                                      /\ r.s[1] \in valid_refs))
    IN
    IF a.t # "dict"
    THEN [raised |-> FALSE, a |-> a,
          issues |-> <<Issue("invalid_action_type", "error", i, <<>>)>>]
    ELSE IF refs.t = "null" \/ (refs.t = "list" /\ refs.kids = <<>>)
    THEN [raised |-> FALSE, a |-> a,
          issues |-> <<Issue("missing_evidence_refs", "error", i, <<>>)>>]
    ELSE IF refs.t # "list"
    THEN [raised |-> FALSE, a |-> a,
          issues |-> <<Issue("invalid_evidence_refs_type", "error", i, <<>>)>>]
    ELSE IF \E k \in DOMAIN refs.kids : refs.kids[k].val.t \in {"list", "dict"}
    THEN [raised |-> TRUE, a |-> a, issues |-> <<>>]
    ELSE IF Truthy(conf) /\ conf.t # "str"
    THEN [raised |-> TRUE, a |-> a, issues |-> <<>>]
    ELSE [raised |-> FALSE,
          a |-> fill_due_date(a),
          issues |->
             (IF unknown # <<>>
              THEN <<Issue("unknown_evidence_refs", "error", i, unknown)>>
              ELSE <<>>)
             \o (IF LowerStr(conf.s) \notin confidence_values
                 THEN <<Issue("bad_confidence_value", "warning", i, <<>>)>>
                 ELSE <<>>)
             \o (IF missing_due_date(a)
                 THEN <<Issue("missing_due_date", "warning", i, <<>>)>>
                 ELSE <<>>)]

\* The loop over action_list: the issues found and the actions as the loop
\* leaves them; an exception ends it with the fills made so far.
RECURSIVE check_actions(_, _, _)
check_actions(kids, i, valid_refs) ==
    IF i > Len(kids) THEN [raised |-> FALSE, kids |-> kids, issues |-> <<>>]
    ELSE LET one == check_action(kids[i].val, i, valid_refs) IN
         IF one.raised THEN [raised |-> TRUE, kids |-> kids, issues |-> <<>>]
         ELSE LET rest == check_actions(
                              [kids EXCEPT ![i] = KV(kids[i].k, one.a)],
                              i + 1, valid_refs)
              IN [raised |-> rest.raised, kids |-> rest.kids,
                  issues |-> one.issues \o rest.issues]

\* Mutant of action_list_issues: an empty list of actions is accepted.
action_list_issues_no_empty(d) ==
    LET al == Get(d, "action_list") IN
    IF al.t = "null"
    THEN <<Issue("missing_action_list", "error", 0, <<>>)>>
    ELSE IF al.t # "list"
    THEN <<Issue("invalid_action_list_type", "error", 0, <<>>)>>
    ELSE <<>>

\* The action_list checks before the loop.
action_list_issues(d) ==
    LET al == Get(d, "action_list") IN
    (IF al.t = "null"
     THEN <<Issue("missing_action_list", "error", 0, <<>>)>>
     ELSE IF al.t # "list"
     THEN <<Issue("invalid_action_list_type", "error", 0, <<>>)>>
     ELSE <<>>)
    \o (IF al.t # "list" \/ al.kids = <<>>
        THEN <<Issue("empty_action_list", "error", 0, <<>>)>> ELSE <<>>)

\* Mutant of decision: any issue blocks.
decision_any_issue(issues, deliverable) ==
    IF issues # <<>>
    THEN Verified("blocked", "Verifier blocked deliverable", issues, deliverable)
    ELSE Verified("ok", "Verifier passed deliverable.", <<>>, deliverable)

\* The final decision on the issues collected.
error_issues(issues) == SelectSeq(issues, LAMBDA x : x.severity = "error")
decision(issues, deliverable) ==
    IF error_issues(issues) # <<>>
    THEN Verified("blocked", "Verifier blocked deliverable", issues, deliverable)
    ELSE IF issues # <<>>
    THEN Verified("ok", "Verifier passed deliverable with warning(s)", issues,
                  deliverable)
    ELSE Verified("ok", "Verifier passed deliverable.", <<>>, deliverable)

\* verify_deliverable: res is what it returns (status "raise": an exception
\* left it) and wo the writer output afterwards, whose deliverable is the
\* object the action loop writes to.
verify_deliverable(wo, ro) ==
    IF wo.t \notin {"dict", "empty"}
    THEN [res |-> Verified("error", "writer_output must be a dict", <<>>, JNull),
          wo |-> wo]
    ELSE IF ro.t \notin {"dict", "empty"}
    THEN [res |-> Verified("error", "research_output must be a dict", <<>>,
                           JNull), wo |-> wo]
    ELSE IF wo.status # "ok"
    THEN [res |-> Verified("blocked", "Writer output is not OK; cannot verify.",
                           <<>>, JNull), wo |-> wo]
    ELSE IF ro.status # "found"
    THEN [res |-> Verified("blocked",
              "No evidence found; deliverable must be 'Not found in sources.'",
              <<>>, JNull),
          wo |-> wo]
    ELSE IF ~Truthy(wo.deliverable) \/ wo.deliverable.t # "dict"
    THEN [res |-> Verified("error", "writer_output missing valid 'deliverable' dict",
                           <<>>, JNull), wo |-> wo]
    ELSE IF ro.evidence = <<>>
    THEN [res |-> Verified("blocked",
              "Evidence list is empty; cannot verify references.", <<>>, JNull),
          wo |-> wo]
    ELSE LET d == wo.deliverable
             valid_refs == _valid_ref_set(ro.evidence)
             al == Get(d, "action_list")
             loop == check_actions(IF al.t = "list" THEN al.kids ELSE <<>>,
                                   1, valid_refs)
             d2 == IF al.t = "list"
                   THEN Put(d, "action_list", [al EXCEPT !.kids = loop.kids])
                   ELSE d
             issues == required_issues(d) \o summary_issues(d)
                       \o email_issues(d) \o global_ref_issues(d, valid_refs)
                       \o action_list_issues(d) \o loop.issues
         IN IF loop.raised
            THEN [res |-> Verified("raise", "", <<>>, JNull),
                  wo |-> [wo EXCEPT !.deliverable = d2]]
            ELSE [res |-> decision(issues, d2),
                  wo |-> [wo EXCEPT !.deliverable = d2]]

(***************************************************************************)
(* agents/planner_agent.py                                                 *)
(***************************************************************************)
\* _validate_plan, by what the parsed plan is: a dict with every field in
\* place has no issues; a value that is no dict but holds the word "goal"
\* raises AttributeError at plan.get; anything else has issues.
_validate_plan(plan) ==
    IF plan.kind = "plan" THEN "ok"
    ELSE IF plan.kind = "goal_list" THEN "raise"
    ELSE "issues"

PlannerOut(status, message, qs) ==
    [t |-> "dict", status |-> status, message |-> message, questions |-> qs]

\* plan_task on a non-blank task: the chat call, the parse, the validation.
\* questions is the plan's research_questions, TRUE for a question that is
\* not blank.
plan_task(gen) ==
    LET chat == planner_ollama_chat(gen.script) IN
    IF chat.raised
    THEN [out |-> PlannerOut("error", "Failed to communicate with LLM", <<>>),
          posts |-> chat.posts]
    ELSE IF gen.raw.form \notin {"json", "fenced", "braces"}
            \/ gen.raw.payload.kind = "null"
    THEN [out |-> PlannerOut("error", "Planner model did not return valid JSON.",
                             <<>>), posts |-> chat.posts]
    ELSE IF _validate_plan(gen.raw.payload) = "raise"
    THEN [out |-> PlannerOut("raise", "AttributeError", <<>>),
          posts |-> chat.posts]
    ELSE IF _validate_plan(gen.raw.payload) = "issues"
    THEN [out |-> PlannerOut("error", "Plan structure validation failed.",
                             gen.raw.payload.questions),
          posts |-> chat.posts]
    ELSE [out |-> PlannerOut("ok", "", gen.raw.payload.questions),
          posts |-> chat.posts]

(***************************************************************************)
(* app/main.py: run                                                        *)
(***************************************************************************)
MAX_QUERIES == 3

Ret(status, message, result) ==
    [status |-> status, message |-> message, result |-> result]
Entry(agent, status, issues) ==
    [agent |-> agent, status |-> status, issues |-> issues]

\* The deliverable run returns when research found nothing.
not_found_deliverable ==
    JDict(<<KV("executive_summary", JStr(SentinelToks)),
            KV("client_ready_email",
               JDict(<<KV("subject", JStr(<<Word("Information"), Sp, Word("Not"),
                                            Sp, Word("Available")>>)),
                       KV("body", JStr(SentinelToks))>>)),
            KV("action_list", JList(<<>>)),
            KV("sources", JList(<<>>))>>)

\* Mutant of not_found_return: the research status is passed on.
not_found_return_status ==
    Ret("not_found", NOT_FOUND, not_found_deliverable)

\* What run returns when research found nothing.
not_found_return == Ret("ok", NOT_FOUND, not_found_deliverable)

\* The tests run makes on a stage's output.
\* Mutant of planner_failed: the planner's status is not looked at.
planner_failed_never(out) == FALSE
planner_failed(out) == out.status # "ok"
\* Mutant of early_exit: only a research error ends the run early.
early_exit_on_error(ro) == ro.status = "error"
early_exit(ro) == ro.status # "found"
\* Mutant of writer_failed: the writer's status is not looked at.
writer_failed_never(out) == FALSE
writer_failed(out) == out.status # "ok"
final_status(v) == IF v.status = "ok" THEN "ok" ELSE "blocked"

\* plan.get("research_questions") or [user_task], cut to three.
research_questions(out) ==
    LET qs == IF out.questions = <<>> THEN <<TRUE>> ELSE out.questions
    IN SubSeq(qs, 1, IF Len(qs) < MAX_QUERIES THEN Len(qs) ELSE MAX_QUERIES)

\* One pass of the research loop: an exception of search becomes an error
\* result.
research_result(r) ==
    IF r.status = "raise" THEN SearchResult("error", "exception", <<>>) ELSE r

(***************************************************************************)
(* Inputs of the research stage                                            *)
(***************************************************************************)
INF == 999         \* the distance the index gives a padding entry (idx -1)
Dists == {30, distance_threshold, distance_threshold + 1}

RawEntry == [idx : 0..MaxIdx, dist : Dists] \cup {[idx |-> -1, dist |-> INF]}

\* What the vector index returns (IndexFlatL2.search): at most MaxRaw
\* entries by ascending distance, no chunk twice, padding last.
IsRaw(r) ==
    /\ \A i \in 1..(Len(r) - 1) : r[i].dist <= r[i + 1].dist
    /\ \A i, j \in DOMAIN r : (i # j /\ r[i].idx >= 0) => r[i].idx # r[j].idx
RawResults ==
    UNION {{r \in [1..len -> RawEntry] : IsRaw(r)} : len \in 0..MaxRaw}

Queries == {[fails |-> TRUE, raw |-> <<>>]}
           \cup {[fails |-> FALSE, raw |-> r] : r \in RawResults}

\* Chunk files: every index resolves; chunk 1 has no text and the last one
\* is longer than max_chars; a malformed line shifts the chunks and leaves
\* the last index out of range; no chunk has text; the file is empty.
ChunkFiles ==
    { [i \in 1..(MaxIdx + 1) |-> Line("row", 5)],
      [i \in 1..(MaxIdx + 1) |->
          IF i = 2 THEN Line("row", 0)
          ELSE IF i = MaxIdx + 1 THEN Line("row", max_chars + 1)
          ELSE Line("row", 5)],
      [i \in 1..(MaxIdx + 1) |->
          IF i = 1 THEN Line("malformed", 0) ELSE Line("row", 5)],
      [i \in 1..(MaxIdx + 1) |->
          IF i = 1 THEN Line("blank", 0) ELSE Line("row", 0)],
      <<>> }
Stores == {EvidenceStore(TRUE, f) : f \in ChunkFiles}
          \cup {EvidenceStore(FALSE, <<>>)}

(***************************************************************************)
(* Idle values: what a specification leaves untouched                      *)
(***************************************************************************)
NoResult == SearchResult("", "", <<>>)
RunIdle ==
    /\ pc = "idle" /\ trace = <<>> /\ questions = <<>> /\ results = <<>>
    /\ research_out = NoResult /\ writer_out = NoResult
    /\ verified = NoResult /\ ret = NoResult /\ calls = <<>>

(***************************************************************************)
(* SpecSearch: ResearchAgent.search on every query outcome and store       *)
(***************************************************************************)
InitSearch ==
    /\ RunIdle
    /\ store \in Stores
    /\ h_arg \in [nonblank : BOOLEAN, q : Queries,
                  top_k : (1..MaxTopK) \cup {TOP_K}]
    /\ h_res = NoResult
    /\ h_pc = "start"

SearchCall ==
    /\ h_pc = "start"
    /\ LET r == search(h_arg.nonblank, h_arg.q, h_arg.top_k,
                       distance_threshold, store)
       IN /\ h_res' = r.res
          /\ store' = r.st
    /\ h_pc' = "done"
    /\ UNCHANGED <<h_arg, runvars>>

NextSearch == SearchCall
SpecSearch == InitSearch /\ [][NextSearch]_vars

\* The candidates of a query: the entries of the index's answer that name a
\* chunk; the best distance is the least one among them.
Candidates(raw) == {i \in DOMAIN raw : raw[i].idx >= 0}
BestDistance(raw) ==
    CHOOSE d \in {raw[i].dist : i \in Candidates(raw)} :
        \A i \in Candidates(raw) : d <= raw[i].dist
Queried == h_pc = "done" /\ h_arg.nonblank /\ ~h_arg.q.fails

\* C2: a query with no candidate, or whose best candidate is farther than
\* the threshold, gives not_found with the message "Not found in sources."
\* and no evidence, whatever top_k and the number of candidates; a best
\* distance equal to the threshold passes the gate.
C2_GateInvariant ==
    Queried =>
        LET raw == h_arg.q.raw
            gated == h_res = SearchResult("not_found", NOT_FOUND, <<>>)
        IN /\ Candidates(raw) = {} => gated
           /\ (Candidates(raw) # {} /\ BestDistance(raw) > distance_threshold)
                 => gated
           /\ (Candidates(raw) # {} /\ BestDistance(raw) <= distance_threshold)
                 => ~gated

\* C2 witness: three candidates, the best one just over the threshold.
C2_Witness ==
    /\ Queried
    /\ Cardinality(Candidates(h_arg.q.raw)) >= 2
    /\ BestDistance(h_arg.q.raw) = distance_threshold + 1
    /\ h_res.status = "not_found" /\ h_res.message = NOT_FOUND

\* The hits that survive resolution against the loaded store.
Survives(e) ==
    /\ e.idx >= 0 /\ e.idx < Len(store.chunks)
    /\ store.chunks[e.idx + 1].n > 0

\* C8: search never returns found with an empty evidence list; when the
\* gate passes and every candidate is dropped in resolution (index out of
\* the store's range, no text) the result is not_found.
C8_NeverFoundEmpty ==
    h_pc = "done" =>
        /\ h_res.status = "found" => h_res.evidence # <<>>
        /\ (/\ Queried
            /\ Candidates(h_arg.q.raw) # {}
            /\ BestDistance(h_arg.q.raw) <= distance_threshold
            /\ store.loaded
            /\ \A i \in Candidates(h_arg.q.raw) : ~Survives(h_arg.q.raw[i]))
           => h_res.status = "not_found" /\ h_res.evidence = <<>>

\* C8 witness: the gate passed and both candidates were dropped.
C8_Witness ==
    /\ Queried
    /\ Cardinality(Candidates(h_arg.q.raw)) >= 2
    /\ BestDistance(h_arg.q.raw) <= distance_threshold
    /\ store.loaded /\ store.chunks # <<>>
    /\ \A i \in Candidates(h_arg.q.raw) : ~Survives(h_arg.q.raw[i])
    /\ h_res.status = "not_found"

\* C17, as the claim states it: the evidence of a found search carries the
\* ranks 1..n in list order, also when candidates were dropped.
C17_RanksRelabelled ==
    (h_pc = "done" /\ h_res.status = "found")
    => \A k \in DOMAIN h_res.evidence : h_res.evidence[k].rank = k

\* The hits of a query: its first top_k candidates; those that resolve to
\* a chunk with text.
HitPositions ==
    {i \in Candidates(h_arg.q.raw) :
        Cardinality({j \in Candidates(h_arg.q.raw) : j <= i}) <= h_arg.top_k}
Resolved == {i \in HitPositions : Survives(h_arg.q.raw[i])}
FirstHit == h_arg.q.raw[CHOOSE i \in HitPositions :
                           \A j \in HitPositions : i <= j]

\* C28: when the first hit is within the threshold, the evidence is every
\* hit that resolves to a chunk with text, in the order of the hits and
\* with the distance of each, whether or not that distance is within the
\* threshold.
C28_GateFirstHitOnly ==
    (/\ Queried /\ store.loaded /\ HitPositions # {}
     /\ FirstHit.dist <= distance_threshold /\ Resolved # {}) =>
        /\ h_res.status = "found"
        /\ Len(h_res.evidence) = Cardinality(Resolved)
        /\ \A i \in Resolved :
              LET k == Cardinality({j \in Resolved : j <= i}) IN
              /\ h_res.evidence[k].idx = h_arg.q.raw[i].idx
              /\ h_res.evidence[k].distance = h_arg.q.raw[i].dist

\* C28 witness: a found result whose second item is over the threshold.
C28_Witness ==
    /\ Queried /\ h_res.status = "found"
    /\ Len(h_res.evidence) >= 2
    /\ h_res.evidence[1].distance <= distance_threshold
    /\ h_res.evidence[2].distance > distance_threshold

(***************************************************************************)
(* Inputs of the verifier                                                  *)
(***************************************************************************)
MaxEv == 2         \* evidence items the verifier harness is given

Words(n) == [i \in 1..(2 * n - 1) |-> IF i % 2 = 1 THEN Word("w") ELSE Sp]

\* executive_summary: fine (citing E1); the sentinel; the sentinel in other
\* case and padding; the sentinel's words with a doubled space; one word
\* over the limit; at the limit; null; a number.  AbsentKey: no such key.
AbsentKey == [t |-> "absent", s |-> <<>>, kids |-> <<>>]
Summaries ==
    { JStr(<<Word("summary"), Sp, Label(1)>>),
      JStr(SentinelToks),
      JStr(<<Sp, Word("NOT"), Sp, Word("Found"), Sp, Word("in"), Sp,
             Word("SOURCES."), Sp>>),
      JStr(<<Word("Not"), Sp, Sp, Word("found"), Sp, Word("in"), Sp,
             Word("sources.")>>),
      JStr(Words(MAX_SUMMARY_WORDS + 1)),
      JStr(Words(MAX_SUMMARY_WORDS)),
      JNull, JNum(TRUE), AbsentKey }

Text(w) == JStr(<<Word(w)>>)
Emails ==
    { JDict(<<KV("subject", Text("subject")), KV("body", Text("body"))>>),
      JDict(<<KV("subject", Text("subject")), KV("body", JStr(SentinelToks))>>),
      JDict(<<KV("body", Text("body"))>>),
      Text("email"),
      AbsentKey }

\* Actions: Action(due, conf, refs) with every key present unless its value
\* is AbsentKey.
Fields(kvs) == JDict(SelectSeq(kvs, LAMBDA kv : kv.val # AbsentKey))
Action(due, conf, refs) ==
    Fields(<<KV("action", Text("act")), KV("owner", Text("Lead")),
             KV("due_date", due), KV("confidence", conf),
             KV("evidence_refs", refs)>>)
RefsE1 == JList(<<JStr(<<Label(1)>>)>>)
Good == Action(Text("Friday"), Text("high"), RefsE1)
NoDue == Action(AbsentKey, Text("HIGH"), RefsE1)
BlankDue == Action(JStr(<<>>), Text("medium"), RefsE1)
SpaceDue == Action(JStr(<<Sp>>), Text("low"), RefsE1)
NullDue == Action(JNull, Text("certain"), RefsE1)
NoRefsNoDue == Action(AbsentKey, Text("high"), AbsentKey)
EmptyRefsBlankDue == Action(JStr(<<>>), Text("high"), JList(<<>>))
StrRefsNoDue == Action(AbsentKey, Text("high"), JStr(<<Label(1)>>))
NumConf == Action(Text("Friday"), JNum(TRUE), RefsE1)
ListRef == Action(Text("Friday"), Text("high"), JList(<<JList(<<>>)>>))
PaddedRef == Action(Text("Friday"), JNull, JList(<<JStr(<<Sp, Label(1)>>)>>))
OddConf == Action(Text("Friday"), Text("certain"), RefsE1)
TwoRefs ==
    Action(Text("Friday"), Text("high"),
           JList(<<JStr(<<Label(1)>>), JStr(<<Label(2)>>)>>))

ActionLists ==
    { AbsentKey, JNull, Text("actions"), JList(<<>>),
      JList(<<Good>>), JList(<<NoDue>>), JList(<<BlankDue>>),
      JList(<<Good, SpaceDue>>), JList(<<NoDue, NullDue>>),
      JList(<<NoRefsNoDue>>), JList(<<Good, EmptyRefsBlankDue>>),
      JList(<<StrRefsNoDue, Good>>), JList(<<Text("act"), Good>>),
      JList(<<NumConf>>), JList(<<NoDue, NumConf>>), JList(<<ListRef>>),
      JList(<<PaddedRef>>), JList(<<Good, TwoRefs>>),
      JList(<<OddConf>>) }

VEvidence(n) == [i \in 1..n |-> Evidence(i - 1, i, 30, 5)]

Deliverable(es, email, al, sources) ==
    Fields(<<KV("executive_summary", es), KV("client_ready_email", email),
             KV("action_list", al), KV("sources", sources)>>)

\* A label planted in the deliverable: appended to the summary, to the
\* email body, to the text of the last action, to the citation of the
\* last source, or put three levels deep under a key of its own.
PlantLocs == {"summary", "body", "action", "citation", "nested"}
PlantRefs(n) == {Ref(<<k>>) : k \in 0..(n + 3)} \cup {Ref(<<0, 1>>)}
NoPlant == [loc |-> "none", tok |-> Sp]
AppendTok(j, tok) == [j EXCEPT !.s = @ \o <<Sp, tok>>]
PutLast(list, key, tok) ==
    LET last == list.kids[Len(list.kids)].val IN
    [list EXCEPT !.kids[Len(list.kids)] =
        KV("", Put(last, key, AppendTok(Get(last, key), tok)))]
CanPlant(d, loc) ==
    CASE loc = "summary" -> Get(d, "executive_summary").t = "str"
      [] loc = "body" -> Get(Get(d, "client_ready_email"), "body").t = "str"
      [] loc = "action" ->
           LET al == Get(d, "action_list") IN
           /\ al.t = "list" /\ al.kids # <<>>
           /\ Get(al.kids[Len(al.kids)].val, "action").t = "str"
      [] loc = "citation" -> Get(d, "sources").kids # <<>>
      [] loc = "nested" -> TRUE
      [] OTHER -> FALSE
Plant(d, loc, tok) ==
    CASE loc = "summary" ->
           Put(d, "executive_summary",
               AppendTok(Get(d, "executive_summary"), tok))
      [] loc = "body" ->
           Put(d, "client_ready_email",
               Put(Get(d, "client_ready_email"), "body",
                   AppendTok(Get(Get(d, "client_ready_email"), "body"), tok)))
      [] loc = "action" ->
           Put(d, "action_list", PutLast(Get(d, "action_list"), "action", tok))
      [] loc = "citation" ->
           Put(d, "sources", PutLast(Get(d, "sources"), "citation", tok))
      [] loc = "nested" ->
           Put(d, "notes",
               JList(<<JDict(<<KV("deep",
                         JList(<<JNum(TRUE), JStr(<<Word("see"), Sp, tok>>)>>))>>)>>))
      [] OTHER -> d

(***************************************************************************)
(* SpecVerify: verify_deliverable, called twice on the same objects        *)
(***************************************************************************)
GoodSummary == JStr(<<Word("summary"), Sp, Label(1)>>)
GoodEmail ==
    JDict(<<KV("subject", Text("subject")), KV("body", Text("body"))>>)
GoodDeliverable(n) ==
    Deliverable(GoodSummary, GoodEmail, JList(<<Good>>),
                sources_of(VEvidence(n)))

VerifyArg(wo, ro, plant) == [wo |-> wo, wo0 |-> wo, ro |-> ro, plant |-> plant]

Plants(n) == {NoPlant} \cup [loc : PlantLocs, tok : PlantRefs(n)]
Planted(d, plant) ==
    IF plant = NoPlant THEN d ELSE Plant(d, plant.loc, plant.tok)

\* Deliverables of every shape, with and without a planted label, against
\* 1..MaxEv evidence items.
ContentInput(arg) ==
    \E n \in 1..MaxEv, es \in Summaries, email \in Emails, al \in ActionLists,
       src \in BOOLEAN :
      LET d == Deliverable(es, email, al,
                           IF src THEN sources_of(VEvidence(n)) ELSE AbsentKey)
      IN \E plant \in Plants(n) :
           /\ plant = NoPlant \/ CanPlant(d, plant.loc)
           /\ src \/ (/\ plant = NoPlant /\ es = GoodSummary
                      /\ email = GoodEmail /\ al = JList(<<Good>>))
           /\ arg = VerifyArg(WriterOut("ok", "", Planted(d, plant)),
                              SearchResult("found", "", VEvidence(n)), plant)

\* Arguments that fail a precondition.
NotADict == [t |-> "none", status |-> "", message |-> "", evidence |-> <<>>]
EmptyDict == [t |-> "empty", status |-> "", message |-> "", evidence |-> <<>>]
PreconditionInput(arg) ==
    \E wo \in {WriterOut(st, "", d) :
                  st \in {"ok", "error", "not_found"},
                  d \in {GoodDeliverable(1), JNull, JDict(<<>>), Text("x")}}
              \cup {[t |-> "none", status |-> "", message |-> "",
                     deliverable |-> JNull]},
       ro \in {SearchResult(st, "", VEvidence(n)) :
                  st \in {"found", "not_found", "error"}, n \in 0..1}
              \cup {NotADict, EmptyDict} :
      arg = VerifyArg(wo, ro, NoPlant)

InitVerify ==
    /\ RunIdle
    /\ store = EvidenceStore(FALSE, <<>>)
    /\ ContentInput(h_arg) \/ PreconditionInput(h_arg)
    /\ h_res = <<>>
    /\ h_pc = "start"

\* verify_deliverable(writer_output, research_output): the deliverable it
\* writes to is the writer output's own.
VerifyCall ==
    /\ h_pc = "start"
    /\ LET r == verify_deliverable(h_arg.wo, h_arg.ro)
       IN /\ h_res' = <<r.res>>
          /\ h_arg' = [h_arg EXCEPT !.wo = r.wo]
    /\ h_pc' = "once"
    /\ UNCHANGED <<store, runvars>>

\* The same call again, on the objects as the first call left them.
VerifyAgain ==
    /\ h_pc = "once"
    /\ LET r == verify_deliverable(h_arg.wo, h_arg.ro)
       IN /\ h_res' = Append(h_res, r.res)
          /\ h_arg' = [h_arg EXCEPT !.wo = r.wo]
    /\ h_pc' = "twice"
    /\ UNCHANGED <<store, runvars>>

NextVerify == VerifyCall \/ VerifyAgain
SpecVerify == InitVerify /\ [][NextVerify]_vars

\* The first call's arguments as given, its result, and whether the
\* verifier's preconditions held and the call returned.
Called == h_pc \in {"once", "twice"}
Given == h_arg.wo0.deliverable
R1 == h_res[1]
PreconditionsPass ==
    /\ h_arg.wo0.t \in {"dict", "empty"} /\ h_arg.ro.t \in {"dict", "empty"}
    /\ h_arg.wo0.status = "ok" /\ h_arg.ro.status = "found"
    /\ Given.t = "dict" /\ Given.kids # <<>>
    /\ h_arg.ro.evidence # <<>>
Checked == Called /\ PreconditionsPass /\ R1.status # "raise"
IssuesOf(type) == {k \in DOMAIN R1.issues : R1.issues[k].type = type}

\* The labels the deliverable as given cites besides the E1 of its
\* summary: the planted one and those in the evidence_refs of its actions.
LabelsIn(toks) == {toks[j] : j \in {m \in DOMAIN toks : toks[m].ref}}
RefLabels(refs) ==
    LabelsIn(refs.s)
    \cup UNION {LabelsIn(refs.kids[k].val.s) : k \in DOMAIN refs.kids}
Cited ==
    (IF h_arg.plant = NoPlant THEN {} ELSE {h_arg.plant.tok})
    \cup UNION {RefLabels(Get(Get(Given, "action_list").kids[i].val,
                              "evidence_refs")) :
                   i \in {k \in DOMAIN Get(Given, "action_list").kids :
                             Get(Given, "action_list").kids[k].val.t = "dict"}}

ActionsOf(d) ==
    IF Get(d, "action_list").t = "list" THEN Get(d, "action_list").kids
    ELSE <<>>
DueMissing(a) ==
    /\ a.t = "dict"
    /\ \/ Get(a, "due_date").t = "null"
       \/ /\ Get(a, "due_date").t = "str"
          /\ \A k \in DOMAIN Get(a, "due_date").s : Get(a, "due_date").s[k] = Sp
HasRefList(a) ==
    Get(a, "evidence_refs").t = "list" /\ Get(a, "evidence_refs").kids # <<>>
Filled(i) ==
    /\ Get(ActionsOf(h_arg.wo.deliverable)[i].val, "due_date") = JStr(SentinelToks)
    /\ Get(ActionsOf(R1.deliverable)[i].val, "due_date") = JStr(SentinelToks)
    /\ Cardinality({k \in IssuesOf("missing_due_date") :
                       R1.issues[k].i = i}) = 1
    /\ \A k \in IssuesOf("missing_due_date") : R1.issues[k].severity = "warning"

C11_BlockedUnmodified ==
    (Checked /\ R1.status = "blocked") => R1.deliverable = Given

\* The second call's result, and a list of issues without the
\* missing_due_date ones.
CalledTwice == h_pc = "twice"
R2 == h_res[2]
WithoutDueDate(issues) ==
    SelectSeq(issues, LAMBDA x : x.type # "missing_due_date")

\* C12, as the claim states it: the second call on the same objects gives
\* the status and the issue list of the first.
C12_Original ==
    CalledTwice => R2.status = R1.status /\ R2.issues = R1.issues

\* C12 as amended: the second call on the same objects gives the status,
\* the message apart, of the first and the first call's issue list without
\* its missing_due_date warnings, the due dates being filled by then; it
\* returns the deliverable the first call returned.
C12_SecondCall ==
    CalledTwice =>
        /\ R2.status = R1.status
        /\ R2.issues = WithoutDueDate(R1.issues)
        /\ R2.deliverable = R1.deliverable

\* C12 witness: the first call warned about a due date and passed, the
\* second passes with no issue.
C12_Witness ==
    /\ CalledTwice /\ PreconditionsPass
    /\ R1.status = "ok" /\ IssuesOf("missing_due_date") # {}
    /\ R2.status = "ok" /\ R2.issues = <<>>

\* The first precondition that fails for the arguments given, in the
\* order claimed: "writer", "research", "deliverable", "evidence", or
\* "none".
BothDicts ==
    h_arg.wo0.t \in {"dict", "empty"} /\ h_arg.ro.t \in {"dict", "empty"}
FirstFailure ==
    IF h_arg.wo0.status # "ok" THEN "writer"
    ELSE IF h_arg.ro.status # "found" THEN "research"
    ELSE IF Given.t # "dict" \/ Given.kids = <<>> THEN "deliverable"
    ELSE IF h_arg.ro.evidence = <<>> THEN "evidence"
    ELSE "none"

\* C20: on writer and research outputs that are dicts, verify_deliverable
\* answers the first failing precondition, in the order writer status,
\* research status, deliverable, evidence, with blocked, blocked, error,
\* blocked; the result has no issues and no deliverable, and the writer
\* output is left as given.
C20_ShortCircuits ==
    (Called /\ BothDicts /\ FirstFailure # "none") =>
        /\ R1.status = CASE FirstFailure = "writer" -> "blocked"
                         [] FirstFailure = "research" -> "blocked"
                         [] FirstFailure = "deliverable" -> "error"
                         [] FirstFailure = "evidence" -> "blocked"
        /\ R1.message =
              CASE FirstFailure = "writer"
                     -> "Writer output is not OK; cannot verify."
                [] FirstFailure = "research"
                     -> "No evidence found; deliverable must be 'Not found in sources.'"
                [] FirstFailure = "deliverable"
                     -> "writer_output missing valid 'deliverable' dict"
                [] FirstFailure = "evidence"
                     -> "Evidence list is empty; cannot verify references."
        /\ R1.issues = <<>>
        /\ R1.deliverable = JNull
        /\ h_arg.wo = h_arg.wo0

\* C20 witness: every precondition fails at once -- writer status error,
\* research status not_found, no deliverable, no evidence -- and the answer
\* is the writer's: blocked.
C20_Witness ==
    /\ Called /\ BothDicts
    /\ h_arg.wo0.status = "error" /\ h_arg.ro.status = "not_found"
    /\ Given = JNull /\ h_arg.ro.evidence = <<>>
    /\ R1.status = "blocked"
    /\ R1.message = "Writer output is not OK; cannot verify."
    /\ R1.issues = <<>>

\* An issue of severity sev about action i (0: about the list itself).
IssueAt(sev, i) ==
    \E k \in DOMAIN R1.issues :
       R1.issues[k].severity = sev /\ R1.issues[k].i = i
BadConfidence(a) ==
    LET c == Get(a, "confidence") IN
    ~(c.t = "str" /\ LowerStr(c.s) \in confidence_values)
BadRefs(a) ==
    LET refs == Get(a, "evidence_refs")
        valid == {JStr(<<Label(i)>>) : i \in 1..Len(h_arg.ro.evidence)}
    IN \/ ~Has(a, "evidence_refs") \/ refs.t # "list" \/ refs.kids = <<>>
       \/ \E k \in DOMAIN refs.kids : refs.kids[k].val \notin valid

SameButDueDate(a, b) ==
    \/ b = a
    \/ /\ DueMissing(a) /\ b.t = "dict"
       /\ Get(b, "due_date") = JStr(SentinelToks)
       /\ Len(b.kids) = Len(a.kids) + (IF Has(a, "due_date") THEN 0 ELSE 1)
       /\ \A k \in DOMAIN a.kids :
             /\ b.kids[k].k = a.kids[k].k
             /\ a.kids[k].k # "due_date" => b.kids[k] = a.kids[k]
       /\ \A k \in DOMAIN b.kids \ DOMAIN a.kids : b.kids[k].k = "due_date"
Frame(wo, wo2) ==
    LET d == wo.deliverable
        d2 == wo2.deliverable
    IN /\ wo2.t = wo.t /\ wo2.status = wo.status /\ wo2.message = wo.message
       /\ d2.t = d.t /\ d2.s = d.s /\ Len(d2.kids) = Len(d.kids)
       /\ \A k \in DOMAIN d.kids :
             /\ d2.kids[k].k = d.kids[k].k
             /\ d.kids[k].k # "action_list" => d2.kids[k] = d.kids[k]
       /\ LET al == Get(d, "action_list")
              al2 == Get(d2, "action_list")
          IN /\ al2.t = al.t /\ al2.s = al.s /\ Len(al2.kids) = Len(al.kids)
             /\ \A i \in DOMAIN al.kids :
                   SameButDueDate(al.kids[i].val, al2.kids[i].val)

\* C22: a call of verify_deliverable changes nothing but the due_date of
\* actions whose due_date is missing or blank, which becomes the sentinel:
\* research_output, the writer status and message, every other field of
\* the deliverable, every other key of every action, and the number and
\* order of the actions are as before the call.
C22_OnlyDueDate ==
    [][h_arg'.ro = h_arg.ro /\ Frame(h_arg.wo, h_arg'.wo)]_vars

\* C22 witness: of two actions the second, without a due date, has been
\* filled, and the first is as it was.
C22_Witness ==
    /\ Checked
    /\ Len(ActionsOf(Given)) = 2
    /\ ~DueMissing(ActionsOf(Given)[1].val)
    /\ ActionsOf(h_arg.wo.deliverable)[1] = ActionsOf(Given)[1]
    /\ DueMissing(ActionsOf(Given)[2].val)
    /\ ActionsOf(h_arg.wo.deliverable)[2] # ActionsOf(Given)[2]
    /\ Frame(h_arg.wo0, h_arg.wo)

(***************************************************************************)
(* SpecWrite: write_deliverable on every research output and generator     *)
(***************************************************************************)
MaxWEv == 2        \* evidence items the writer harness is given

\* Evidence items at list position i: as search returns them, without
\* text, without a citation.
WItems(i) ==
    { Evidence(i - 1, i, 30, 5),
      [Evidence(i - 1, i, 30, 5) EXCEPT !.n = 0],
      [Evidence(i - 1, i, 30, 5) EXCEPT !.citation = -1] }
WEvidence ==
    UNION {{e \in [1..len -> UNION {WItems(i) : i \in 1..MaxWEv}] :
               \A i \in 1..len : e[i] \in WItems(i)} : len \in 0..MaxWEv}

\* Lists of MAX_ITEMS .. MAX_ITEMS + MaxOver items, every item with text
\* but at most one: the first, the last within the limit or the first
\* beyond it.
MaxOver == 2       \* evidence items beyond the writer's limit
LongEvidence ==
    {[i \in 1..len |-> IF i = blank
                       THEN [Evidence(i - 1, i, 30, 5) EXCEPT !.n = 0]
                       ELSE Evidence(i - 1, i, 30, 5)] :
        len \in MAX_ITEMS..(MAX_ITEMS + MaxOver),
        blank \in {0, 1, MAX_ITEMS, MAX_ITEMS + 1}}

\* What the generator does: per attempt, and the text it answers with.
Scripts == [1..max_retries -> Outcomes]
Payload(es) ==
    JDict(<<KV("executive_summary", es), KV("client_ready_email", GoodEmail),
            KV("action_list", JList(<<NoDue>>)),
            KV("sources", JList(<<Text("made up")>>))>>)
Raws ==
    { [form |-> "json", payload |-> Payload(GoodSummary)],
      [form |-> "fenced", payload |-> Payload(JStr(SentinelToks))],
      [form |-> "braces", payload |-> JDict(<<>>)],
      [form |-> "json", payload |-> JList(<<Payload(GoodSummary)>>)],
      [form |-> "json", payload |-> JNull],
      [form |-> "garbage", payload |-> JNull],
      [form |-> "empty", payload |-> JNull] }
Generators == [script : Scripts, raw : Raws]

ResearchOutputs ==
    {SearchResult(st, "", ev) :
        st \in {"found", "not_found", "error", ""}, ev \in WEvidence}
    \cup {SearchResult("found", "", ev) : ev \in LongEvidence}
    \cup {NotADict, EmptyDict}

NoWrite == [out |-> WriterOut("", "", JNull), posts |-> 0, context |-> <<>>]

InitWrite ==
    /\ RunIdle
    /\ store = EvidenceStore(FALSE, <<>>)
    /\ h_arg \in [ro : ResearchOutputs, gen : Generators]
    /\ h_res = NoWrite
    /\ h_pc = "start"

WriteCall ==
    /\ h_pc = "start"
    /\ h_res' = write_deliverable(h_arg.ro, h_arg.gen)
    /\ h_pc' = "done"
    /\ UNCHANGED <<h_arg, store, runvars>>

NextWrite == WriteCall
SpecWrite == InitWrite /\ [][NextWrite]_vars

\* C1: when the research status is not found, or the evidence list is
\* empty, write_deliverable makes no request to the generator and returns
\* no deliverable; the output's status is not_found whenever the research
\* output is a dict that is not empty (None and {} are answered with error).
C1_NoGeneratorWithoutEvidence ==
    (/\ h_pc = "done"
     /\ h_arg.ro.status # "found" \/ h_arg.ro.evidence = <<>>)
    => /\ h_res.posts = 0
       /\ h_res.out.deliverable = JNull
       /\ h_arg.ro.t = "dict" => h_res.out.status = "not_found"
       /\ h_arg.ro.t # "dict" => h_res.out.status = "error"

\* C1 witness: status found without evidence, a generator that would have
\* answered at once.
C1_Witness ==
    /\ h_pc = "done"
    /\ h_arg.ro.t = "dict"
    /\ h_arg.ro.status = "found" /\ h_arg.ro.evidence = <<>>
    /\ h_arg.gen.script[1] = "ok" /\ h_arg.gen.raw.form = "json"
    /\ h_res.posts = 0 /\ h_res.out.status = "not_found"

\* The evidence context of the call, and the sources of its output.
Context == _build_evidence_context(h_arg.ro.evidence, MAX_ITEMS)
Sources == Get(h_res.out.deliverable, "sources").kids
Wrote == h_pc = "done" /\ h_res.out.status = "ok"

C16_SchemaComplete ==
    Wrote =>
        LET d == h_res.out.deliverable IN
        /\ \A f \in Range(required_fields) : Has(d, f)
        /\ Get(d, "action_list").t = "list"
        /\ \A i \in DOMAIN Get(d, "action_list").kids :
              LET a == Get(d, "action_list").kids[i].val IN
              /\ a.t = "dict"
              /\ \A f \in {"action", "owner", "due_date", "confidence",
                           "evidence_refs"} : Has(a, f)

\* The evidence context of the prompt the generator was sent.
Prompted == h_pc = "done" /\ h_res.posts > 0
Shown == h_res.context

\* C23: the evidence context holds at most 8 blocks; each renders the text
\* of one of the first 8 items of the evidence list and carries the label
\* E<i> of that item's list position i; the blocks are in list order, every one of
\* the first 8 items that has text is among them, and no label is above E8.
C23_ContextFirstEight ==
    Prompted =>
        LET ev == h_arg.ro.evidence
            first == {i \in DOMAIN ev : i <= 8}
            pos(k) == CHOOSE i \in first : Shown[k].label = Label(i)
        IN /\ Len(Shown) <= 8
           /\ \A k \in DOMAIN Shown :
                 /\ \E i \in first : Shown[k].label = Label(i)
                 /\ Shown[k].label \notin {Label(i) : i \in 9..(Len(ev) + 9)}
                 /\ Shown[k].n = ev[pos(k)].n /\ Shown[k].n > 0
           /\ \A k, m \in DOMAIN Shown : k < m => pos(k) < pos(m)
           /\ \A i \in first : ev[i].n > 0 =>
                 \E k \in DOMAIN Shown : Shown[k].label = Label(i)

\* C23 witness: ten items, the first without text: seven blocks, E2..E8.
C23_Witness ==
    /\ Prompted
    /\ Len(h_arg.ro.evidence) = 10
    /\ h_arg.ro.evidence[1].n = 0
    /\ Len(Shown) = 7
    /\ Shown[1].label = Label(2) /\ Shown[7].label = Label(8)

(***************************************************************************)
(* Spec: run, one stage call per step                                      *)
(***************************************************************************)
MaxQuestions == 4  \* research questions the planner's answer may hold

\* What the planner's generator answers: a plan with one to MaxQuestions
\* questions (FALSE: a blank one), a list that holds the word goal, a plan
\* with a field missing, null, no JSON.
Plan(qs) == [kind |-> "plan", questions |-> qs]
PlanQuestions ==
    {<<TRUE>>, <<FALSE>>, <<TRUE, TRUE>>, <<TRUE, FALSE, TRUE>>,
     [i \in 1..MaxQuestions |-> TRUE]}
PlanRaws ==
    {[form |-> "json", payload |-> Plan(qs)] : qs \in PlanQuestions}
    \cup { [form |-> "fenced", payload |-> [kind |-> "goal_list",
                                            questions |-> <<>>]],
           [form |-> "braces", payload |-> [kind |-> "incomplete",
                                            questions |-> <<TRUE>>]],
           [form |-> "json", payload |-> [kind |-> "null", questions |-> <<>>]],
           [form |-> "garbage", payload |-> [kind |-> "null",
                                             questions |-> <<>>]] }
RunScripts == {<<"ok", "ok">>, <<"timeout", "ok">>, <<"timeout", "timeout">>,
               <<"conn", "ok">>, <<"malformed", "ok">>}
PlanGens == [script : {<<"ok", "ok">>}, raw : PlanRaws]
            \cup [script : RunScripts, raw : {[form |-> "json",
                                               payload |-> Plan(<<TRUE>>)]}]

\* What the vector index answers to one question of a run.
Hit(idx, dist) == [idx |-> idx, dist |-> dist]
RunQueries ==
    { [fails |-> TRUE, raw |-> <<>>],
      [fails |-> FALSE, raw |-> <<>>],
      [fails |-> FALSE, raw |-> <<Hit(0, distance_threshold + 1)>>],
      [fails |-> FALSE, raw |-> <<Hit(0, 30), Hit(1, distance_threshold)>>],
      [fails |-> FALSE, raw |-> <<Hit(1, 30), Hit(MaxIdx, distance_threshold + 1)>>] }

\* What the writer's generator answers.
RunPayloads ==
    { Deliverable(GoodSummary, GoodEmail, JList(<<Good>>), AbsentKey),
      Deliverable(GoodSummary, GoodEmail, JList(<<NoDue>>), AbsentKey),
      Deliverable(JStr(SentinelToks), GoodEmail, JList(<<>>), AbsentKey),
      Deliverable(AppendTok(GoodSummary, Label(MaxIdx + 2)), GoodEmail,
                  JList(<<Good>>), JList(<<Text("made up")>>)),
      Deliverable(GoodSummary, GoodEmail, JList(<<NumConf>>), AbsentKey),
      JDict(<<>>), JList(<<>>), JNull }
RunGenerators ==
    [script : {<<"ok", "ok">>}, raw : [form : {"json"}, payload : RunPayloads]]
    \cup [script : RunScripts,
          raw : {[form |-> "garbage", payload |-> JNull]}]

NoCalls == [planner |-> 0, search |-> 0, writer |-> 0, verifier |-> 0,
            posts |-> 0]
NoRet == Ret("", "", JNull)

Init ==
    /\ pc = "start" /\ trace = <<>> /\ questions = <<>> /\ results = <<>>
    /\ research_out = NoResult /\ writer_out = NoResult
    /\ verified = NoResult /\ ret = NoRet /\ calls = NoCalls
    /\ store \in Stores
    /\ h_arg = NoResult /\ h_res = NoResult /\ h_pc = "idle"

Return(status, message, result) ==
    /\ ret' = Ret(status, message, result)
    /\ pc' = "done"

\* run on a blank task: lines 83-90.
EmptyTask ==
    /\ pc = "start"
    /\ Return("error", "Empty task provided", JNull)
    /\ UNCHANGED <<trace, questions, results, research_out, writer_out,
                   verified, calls, store, hvars>>

\* Step 1, plan: lines 97-135.
PlanStep ==
    /\ pc = "start"
    /\ \E gen \in PlanGens : \E p \in {plan_task(gen)} :
         /\ calls' = [calls EXCEPT !.planner = @ + 1, !.posts = @ + p.posts]
         /\ IF p.out.status = "raise"
            THEN /\ trace' = Append(trace, Entry("planner", "error", <<>>))
                 /\ Return("error", "Planner failed", JNull)
                 /\ UNCHANGED questions
            ELSE /\ trace' = Append(trace,
                                    Entry("planner", p.out.status, <<>>))
                 /\ IF planner_failed(p.out)
                    THEN /\ Return("error", p.out.message, JNull)
                         /\ UNCHANGED questions
                    ELSE /\ questions' = research_questions(p.out)
                         /\ pc' = "research"
                         /\ UNCHANGED ret
    /\ UNCHANGED <<results, research_out, writer_out, verified, store, hvars>>

\* Step 2, research: one pass of the loop of lines 164-175; the last pass
\* goes on to the merge, the trace entry and the early exit of lines
\* 178-205.
ResearchStep ==
    /\ pc = "research"
    /\ Len(results) < Len(questions)
    /\ \E q \in RunQueries :
       \E r \in {search(questions[Len(results) + 1], q, TOP_K,
                        distance_threshold, store)} :
       \E rs \in {Append(results, research_result(r.res))} :
       \E merged \in {_merge_research_results(rs)} :
            /\ results' = rs
            /\ store' = r.st
            /\ calls' = [calls EXCEPT !.search = @ + 1]
            /\ IF Len(rs) < Len(questions)
               THEN UNCHANGED <<research_out, trace, ret, pc>>
               ELSE /\ research_out' = merged
                    /\ trace' = Append(trace,
                                       Entry("research", merged.status, <<>>))
                    /\ IF early_exit(merged)
                       THEN Return(not_found_return.status,
                                   not_found_return.message,
                                   not_found_return.result)
                       ELSE pc' = "writer" /\ UNCHANGED ret
    /\ UNCHANGED <<questions, writer_out, verified, hvars>>

\* Step 3, draft: lines 207-242.
WriterStep ==
    /\ pc = "writer"
    /\ \E gen \in RunGenerators :
       \E w \in {write_deliverable(research_out, gen)} :
         /\ calls' = [calls EXCEPT !.writer = @ + 1, !.posts = @ + w.posts]
         /\ IF w.out.status = "raise"
            THEN /\ trace' = Append(trace, Entry("writer", "error", <<>>))
                 /\ Return("error", "Writer failed", JNull)
                 /\ UNCHANGED writer_out
            ELSE /\ writer_out' = w.out
                 /\ trace' = Append(trace, Entry("writer", w.out.status, <<>>))
                 /\ IF writer_failed(w.out)
                    THEN Return("error", w.out.message, JNull)
                    ELSE pc' = "verifier" /\ UNCHANGED ret
    /\ UNCHANGED <<questions, results, research_out, verified, store, hvars>>

\* Step 4, verify: lines 244-286.
VerifierStep ==
    /\ pc = "verifier"
    /\ \E v \in {verify_deliverable(writer_out, research_out)} :
       /\ calls' = [calls EXCEPT !.verifier = @ + 1]
       /\ writer_out' = v.wo
       /\ IF v.res.status = "raise"
          THEN /\ trace' = Append(trace, Entry("verifier", "error", <<>>))
               /\ Return("error", "Verifier failed", JNull)
               /\ UNCHANGED verified
          ELSE /\ verified' = v.res
               /\ trace' = Append(trace, Entry("verifier", v.res.status,
                                               v.res.issues))
               /\ Return(final_status(v.res), v.res.message,
                         v.res.deliverable)
    /\ UNCHANGED <<questions, results, research_out, store, hvars>>

Next == EmptyTask \/ PlanStep \/ ResearchStep \/ WriterStep \/ VerifierStep
Spec == Init /\ [][Next]_vars

\* run is a function call: once called it runs to its return, every stage
\* call coming back (the HTTP requests carry timeouts, the research loop is
\* over a list of at most three questions).
SpecRun == Spec /\ WF_vars(Next)

Agents(tr) == [i \in DOMAIN tr |-> tr[i].agent]
Stages == <<"planner", "research", "writer", "verifier">>
IsPrefix(a, b) == Len(a) <= Len(b) /\ \A i \in DOMAIN a : a[i] = b[i]
Returned == pc = "done"
ResearchFailed == \E i \in DOMAIN results : results[i].status = "error"
StageFailed == \/ ResearchFailed
               \/ \E i \in DOMAIN trace : trace[i].status = "error"

\* C5, as the claim states it: a run in which a stage reported an error --
\* a trace entry, or a research query's result, with status error --
\* returns status error, and never the sentinel deliverable.
C5_ErrorHalts ==
    (Returned /\ StageFailed)
    => /\ ret.status = "error"
       /\ ret.result # not_found_deliverable

\* C6: once the merged research outcome is not found, the run has returned
\* without a call to the writer or the verifier, the trace holds the
\* planner's and the research entry only, and the result is the sentinel
\* deliverable: summary and email body "Not found in sources.", no
\* actions, no sources.
C6_EarlyExit ==
    research_out.status \notin {"", "found"}
    => /\ Returned
       /\ calls.writer = 0 /\ calls.verifier = 0
       /\ Agents(trace) = <<"planner", "research">>
       /\ Get(ret.result, "executive_summary") = JStr(SentinelToks)
       /\ Get(Get(ret.result, "client_ready_email"), "body")
            = JStr(SentinelToks)
       /\ Get(ret.result, "action_list") = JList(<<>>)
       /\ Get(ret.result, "sources") = JList(<<>>)

\* C6 witness: three questions were searched, one of them was gated and
\* none was found; the run returned the sentinel deliverable.
C6_Witness ==
    /\ Returned
    /\ Len(results) = MAX_QUERIES
    /\ \E i \in DOMAIN results : /\ results[i].status = "not_found"
                                 /\ results[i].message # "Empty query provided."
    /\ research_out.status = "not_found"
    /\ ret.result = not_found_deliverable
    /\ Len(trace) = 2

\* C7: the stages of a run are ordered: the planner, the research stage,
\* the writer and the verifier are each entered at most once, the trace is
\* a prefix of planner, research, writer, verifier, a search is made only
\* after the planner returned ok, the writer is called only after the
\* merged research is found, the verifier only after the writer returned
\* ok.
C7_StageOrder ==
    /\ calls.planner <= 1 /\ calls.writer <= 1 /\ calls.verifier <= 1
    /\ calls.search <= MAX_QUERIES
    /\ IsPrefix(Agents(trace), Stages)
    /\ calls.search > 0
         => Len(trace) >= 1 /\ trace[1] = Entry("planner", "ok", <<>>)
    /\ calls.writer > 0
         => /\ Len(trace) >= 2 /\ trace[2] = Entry("research", "found", <<>>)
            /\ research_out.status = "found"
            /\ calls.search = Len(questions)
    /\ calls.verifier > 0
         => /\ Len(trace) >= 3 /\ trace[3] = Entry("writer", "ok", <<>>)
            /\ writer_out.status = "ok"

\* C7 witness: a run that went through the four stages, with three
\* searches.
C7_Witness ==
    /\ Returned
    /\ Agents(trace) = Stages
    /\ calls = [planner |-> 1, search |-> MAX_QUERIES, writer |-> 1,
                verifier |-> 1, posts |-> 2]

\* The occurrences of evidence in the found results of a run: <<q, k>> is
\* item k of question q's result; they are ordered by question, then by
\* position.  FirstOf(idx) is the first occurrence of a chunk.
Occurrences ==
    {<<q, k>> \in (DOMAIN results) \X (1..TOP_K) :
        results[q].status = "found" /\ k \in DOMAIN results[q].evidence}
Before(a, b) == a[1] < b[1] \/ (a[1] = b[1] /\ a[2] < b[2])
ItemAt(o) == results[o[1]].evidence[o[2]]
FirstOf(idx) ==
    CHOOSE o \in Occurrences :
        /\ ItemAt(o).idx = idx
        /\ \A p \in Occurrences : ItemAt(p).idx = idx => (p = o \/ Before(o, p))
Merged == research_out.status = "found"

\* C13: the merged evidence holds every chunk of the found results once:
\* no idx twice, each item the first occurrence of its idx, the items in
\* the order of their first occurrences, question by question.
C13_MergeDedup ==
    Merged =>
        LET ev == research_out.evidence IN
        /\ \A i, j \in DOMAIN ev : i # j => ev[i].idx # ev[j].idx
        /\ {ev[i].idx : i \in DOMAIN ev}
             = {ItemAt(o).idx : o \in Occurrences}
        /\ \A i \in DOMAIN ev : ev[i] = ItemAt(FirstOf(ev[i].idx))
        /\ \A i, j \in DOMAIN ev :
              i < j => Before(FirstOf(ev[i].idx), FirstOf(ev[j].idx))

\* C13 witness: a chunk found by two questions, with different rank and
\* distance, merged once as the first question returned it, followed by a
\* chunk only the second question found.
C13_Witness ==
    /\ Merged
    /\ \E o, p \in Occurrences :
          /\ o[1] < p[1] /\ ItemAt(o).idx = ItemAt(p).idx
          /\ ItemAt(o) # ItemAt(p)
          /\ \E i, j \in DOMAIN research_out.evidence :
                /\ i < j
                /\ research_out.evidence[i] = ItemAt(o)
                /\ FirstOf(research_out.evidence[j].idx)[1] = p[1]

\* The messages of the verifier's results that precede its content checks.
ShortCircuitMessages ==
    { "writer_output must be a dict", "research_output must be a dict",
      "Writer output is not OK; cannot verify.",
      "No evidence found; deliverable must be 'Not found in sources.'",
      "writer_output missing valid 'deliverable' dict",
      "Evidence list is empty; cannot verify references." }
VerifierEntry == trace[Len(trace)]

\* C25: when run is about to call verify_deliverable, the writer status is
\* ok, the merged research status is found with evidence, and the
\* deliverable is a non-empty object with sources; no run gets one of the
\* verifier's short-circuit results; a run that returns blocked has an
\* error issue in the verifier's trace entry and returns the deliverable.
C25_VerifierPreconditions ==
    /\ pc = "verifier" =>
          /\ writer_out.status = "ok"
          /\ research_out.status = "found" /\ research_out.evidence # <<>>
          /\ writer_out.deliverable.t = "dict"
          /\ writer_out.deliverable.kids # <<>>
          /\ Has(writer_out.deliverable, "sources")
    /\ calls.verifier > 0 =>
          /\ verified.message \notin ShortCircuitMessages
          /\ verified.status \in {"", "ok", "blocked"}
    /\ (Returned /\ ret.status = "blocked") =>
          /\ VerifierEntry.agent = "verifier"
          /\ VerifierEntry.status = "blocked"
          /\ \E k \in DOMAIN VerifierEntry.issues :
                VerifierEntry.issues[k].severity = "error"
          /\ ret.result = writer_out.deliverable
          /\ ret.result.t = "dict"

\* C25 witness: a run that returned blocked on the generator's answer {}.
C25_Witness ==
    /\ Returned /\ ret.status = "blocked"
    /\ Len(ret.result.kids) = 1 /\ Has(ret.result, "sources")
    /\ Len(VerifierEntry.issues) > 1

\* C26: run returns, with status ok, blocked or error and never not_found:
\* when research found nothing it returns ok with the message "Not found
\* in sources."; on a blank task it returns error with an empty trace and
\* no stage called, and only then is the trace empty.
C26_RunReturns ==
    /\ <>Returned
    /\ [](Returned =>
            /\ ret.status \in {"ok", "blocked", "error"}
            /\ (trace # <<>> /\ trace[Len(trace)].agent = "research") =>
                  /\ trace[Len(trace)].status = "not_found"
                  /\ ret.status = "ok" /\ ret.message = NOT_FOUND
            /\ (ret.message = "Empty task provided" \/ trace = <<>>) =>
                  /\ ret.status = "error" /\ trace = <<>>
                  /\ calls = NoCalls)

\* C26 witness: three questions asked, nothing found, ok returned.
C26_Witness ==
    /\ Returned
    /\ Len(results) = 3 /\ \A i \in 1..3 : results[i].status # "found"
    /\ ret.status = "ok" /\ ret.message = NOT_FOUND
    /\ ret.result = not_found_deliverable
    /\ calls.writer = 0

\* The research stage is over: its trace entry is written.
ResearchDone == \E i \in DOMAIN trace : trace[i].agent = "research"
ResearchEntry ==
    trace[CHOOSE i \in DOMAIN trace : trace[i].agent = "research"]

\* C27: every question is asked, whatever the earlier ones returned; when
\* some result is found the merged result is found, its evidence is items
\* of found results only, and its status, its message and the trace entry
\* show nothing of the results that were error or not_found; when none is
\* found the merged result is not_found with the sentinel message.
C27_PartialFailure ==
    ResearchDone =>
        /\ Len(results) = Len(questions) /\ calls.search = Len(questions)
        /\ (\E q \in DOMAIN results : results[q].status = "found") =>
              /\ research_out.status = "found" /\ research_out.message = ""
              /\ ResearchEntry.status = "found"
              /\ research_out.evidence # <<>>
              /\ \A i \in DOMAIN research_out.evidence :
                    \E o \in Occurrences : research_out.evidence[i] = ItemAt(o)
        /\ (\A q \in DOMAIN results : results[q].status # "found") =>
              /\ research_out.status = "not_found"
              /\ research_out.message = NOT_FOUND
              /\ research_out.evidence = <<>>

\* C27 witness: the first question ends in an error, the second finds
\* nothing, the third finds evidence, which is the merged evidence.
C27_Witness ==
    /\ ResearchDone
    /\ Len(results) = 3
    /\ results[1].status = "error" /\ results[2].status = "not_found"
    /\ results[3].status = "found"
    /\ research_out.status = "found"
    /\ research_out.evidence = results[3].evidence

(***************************************************************************)
(* SpecChat: _ollama_chat of the planner and of the writer, then the stage *)
(***************************************************************************)
MaxScript == 3     \* attempts the server is scripted for

ChatScripts == [1..MaxScript -> Outcomes]
ChatAgents == {"planner", "writer"}
NoChat == [chat |-> ChatResult(FALSE, 0, ""), stage |-> ""]

\* The stage around the chat call, with an answer that parses and
\* validates: plan_task, or write_deliverable on one evidence item.
stage_status(agent, script) ==
    IF agent = "planner"
    THEN plan_task([script |-> script,
                    raw |-> [form |-> "json", payload |-> Plan(<<TRUE>>)]]).out.status
    ELSE write_deliverable(SearchResult("found", "", VEvidence(1)),
                           [script |-> script,
                            raw |-> [form |-> "json",
                                     payload |-> GoodDeliverable(1)]]).out.status

InitChat ==
    /\ RunIdle
    /\ store = EvidenceStore(FALSE, <<>>)
    /\ h_arg \in [script : ChatScripts, agent : ChatAgents]
    /\ h_res = NoChat
    /\ h_pc = "start"

ChatCall ==
    /\ h_pc = "start"
    /\ h_res' = [h_res EXCEPT !.chat =
                    IF h_arg.agent = "planner"
                    THEN planner_ollama_chat(h_arg.script)
                    ELSE _ollama_chat(h_arg.script)]
    /\ h_pc' = "chat"
    /\ UNCHANGED <<h_arg, store, runvars>>

StageCall ==
    /\ h_pc = "chat"
    /\ h_res' = [h_res EXCEPT !.stage = stage_status(h_arg.agent, h_arg.script)]
    /\ h_pc' = "done"
    /\ UNCHANGED <<h_arg, store, runvars>>

NextChat == ChatCall \/ StageCall
SpecChat == InitChat /\ [][NextChat]_vars

\* What both forms of C14 say of the attempts and of the stage: one to
\* max_retries requests; a further request only after a timeout; the call
\* returns exactly when the last request made succeeded, and a timeout is
\* the last request only when it is the max_retries-th; the stage reports
\* error exactly when the call raised.
ChatDone == h_pc \in {"chat", "done"}
LastOutcome == h_arg.script[h_res.chat.posts]
Attempts ==
    /\ h_res.chat.posts \in 1..max_retries
    /\ \A a \in 1..(h_res.chat.posts - 1) : h_arg.script[a] = "timeout"
    /\ LastOutcome = "ok" <=> ~h_res.chat.raised
    /\ LastOutcome = "timeout" => h_res.chat.posts = max_retries
    /\ h_pc = "done" =>
          h_res.stage = IF h_res.chat.raised THEN "error" ELSE "ok"

\* C14, as the claim states it: at most max_retries attempts, only a
\* timeout retried, and every call that does not return raises
\* RuntimeError, which the stage reports as status error.
C14_Original ==
    ChatDone =>
        /\ Attempts
        /\ h_res.chat.raised => h_res.chat.exc = "RuntimeError"

\* C14 as amended: at most max_retries attempts, only a timeout retried;
\* a call that does not return raises RuntimeError, except that the
\* writer's call raises KeyError on a response without message.content;
\* either way the stage reports status error.
C14_ChatRetry ==
    ChatDone =>
        /\ Attempts
        /\ h_res.chat.raised =>
              h_res.chat.exc =
                 IF h_arg.agent = "writer" /\ LastOutcome = "malformed"
                 THEN "KeyError" ELSE "RuntimeError"

\* C14 witness: the writer's call times out twice and raises RuntimeError
\* after max_retries requests, although a third would have succeeded; the
\* writer reports error.
C14_Witness ==
    /\ h_pc = "done"
    /\ h_arg.agent = "writer"
    /\ h_arg.script = <<"timeout", "timeout", "ok">>
    /\ h_res.chat = ChatResult(TRUE, max_retries, "RuntimeError")
    /\ h_res.stage = "error"

(***************************************************************************)
(* retrieval/chunking.py: _token_windows                                   *)
(***************************************************************************)
\* The tokens of a block are their positions 1..n; a window is the sequence
\* of the positions it holds (the text decode gives back is not modelled).
\* tokens[i : i + max_tokens] on n tokens, i >= 0:
window_tokens(n, i, max_tokens) ==
    LET hi == IF i + max_tokens < n THEN i + max_tokens ELSE n
    IN [k \in 1..(IF hi > i THEN hi - i ELSE 0) |-> i + k]

\* Mutant of next_start: the step is at least one token.
next_start_guarded(i, max_tokens, overlap) ==
    i + (IF max_tokens - overlap < 1 THEN 1 ELSE max_tokens - overlap)
\* Mutant of next_start: the next window starts where this one ends.
next_start_at_end(i, max_tokens, overlap) == i + max_tokens
\* i += step, step = max_tokens - overlap.
next_start(i, max_tokens, overlap) == i + (max_tokens - overlap)

(***************************************************************************)
(* SpecWindows: _token_windows, one pass of its loop per step              *)
(***************************************************************************)
MaxBlock == 7        \* tokens in a block
MaxWindow == 3       \* max_tokens
MaxWindows == 8      \* windows after which a loop that never ends is cut

InitWindows ==
    /\ RunIdle
    /\ store = EvidenceStore(FALSE, <<>>)
    /\ h_arg \in {a \in [n : 0..MaxBlock, max_tokens : 1..MaxWindow,
                         overlap : 0..MaxWindow] : a.overlap <= a.max_tokens}
    /\ h_res = [i |-> 0, windows |-> <<>>]
    /\ h_pc = "start"

\* Lines 44-50: no tokens, no windows.
WindowsStart ==
    /\ h_pc = "start"
    /\ h_pc' = IF h_arg.n = 0 THEN "done" ELSE "loop"
    /\ UNCHANGED <<h_arg, h_res, store, runvars>>

\* Lines 52-57: one pass of the while loop.
WindowsLoop ==
    /\ h_pc = "loop"
    /\ Len(h_res.windows) < MaxWindows
    /\ IF h_res.i < h_arg.n
       THEN LET w == window_tokens(h_arg.n, h_res.i, h_arg.max_tokens) IN
            IF h_res.i + h_arg.max_tokens >= h_arg.n
            THEN /\ h_res' = [h_res EXCEPT !.windows = Append(@, w)]
                 /\ h_pc' = "done"
            ELSE /\ h_res' = [i |-> next_start(h_res.i, h_arg.max_tokens,
                                               h_arg.overlap),
                              windows |-> Append(h_res.windows, w)]
                 /\ h_pc' = "loop"
       ELSE h_pc' = "done" /\ UNCHANGED h_res
    /\ UNCHANGED <<h_arg, store, runvars>>

NextWindows == WindowsStart \/ WindowsLoop
SpecWindows == InitWindows /\ [][NextWindows]_vars

\* The call keeps running: a pass of the loop that can be made is made.
SpecWindowsLive == SpecWindows /\ WF_vars(NextWindows)

Shared(v, w) == Cardinality(Range(v) \cap Range(w))
Positions(ws) == UNION {Range(ws[k]) : k \in DOMAIN ws}

\* C18: when _token_windows returns: a block of no tokens gives no window;
\* a block of at most max_tokens tokens gives one window, the whole block;
\* a longer block gives windows of at most max_tokens tokens, each starting
\* after the one before and sharing exactly overlap tokens with it, which
\* together hold every token of the block.
C18_TokenWindows ==
    h_pc = "done" =>
        LET ws == h_res.windows
            n == h_arg.n
        IN /\ n = 0 => ws = <<>>
           /\ (1 <= n /\ n <= h_arg.max_tokens) => ws = <<[k \in 1..n |-> k]>>
           /\ n > h_arg.max_tokens =>
                 /\ Len(ws) >= 2
                 /\ \A k \in DOMAIN ws :
                       /\ ws[k] # <<>> /\ Len(ws[k]) <= h_arg.max_tokens
                       /\ \A j \in 1..(Len(ws[k]) - 1) : ws[k][j + 1] = ws[k][j] + 1
                 /\ \A k \in 1..(Len(ws) - 1) :
                       /\ ws[k][1] < ws[k + 1][1]
                       /\ Shared(ws[k], ws[k + 1]) = h_arg.overlap
                 /\ Positions(ws) = 1..n

\* C18 witness: six tokens in windows of three with an overlap of one:
\* three windows, the last one the remainder of two tokens.
C18_Witness ==
    /\ h_pc = "done"
    /\ h_arg = [n |-> 6, max_tokens |-> 3, overlap |-> 1]
    /\ h_res.windows = <<<<1, 2, 3>>, <<3, 4, 5>>, <<5, 6>>>>

\* C29: with 0 <= overlap < max_tokens the call returns, each pass that
\* goes on moving the window start forward by max_tokens - overlap; with
\* overlap = max_tokens and a block longer than max_tokens it never
\* returns: the start stays at 0 and every window is the first one again.
C29_Termination ==
    /\ (h_arg.overlap < h_arg.max_tokens) ~> (h_pc = "done")
    /\ [][(h_pc = "loop" /\ h_pc' = "loop"
            /\ h_arg.overlap < h_arg.max_tokens) =>
              /\ h_res'.i = h_res.i + (h_arg.max_tokens - h_arg.overlap)
              /\ h_res'.i > h_res.i /\ h_res'.i < h_arg.n]_vars
    /\ []((h_arg.overlap = h_arg.max_tokens /\ h_arg.n > h_arg.max_tokens) =>
            /\ h_pc # "done"
            /\ h_res.i = 0
            /\ \A k \in DOMAIN h_res.windows :
                  h_res.windows[k] = [j \in 1..h_arg.max_tokens |-> j])

\* C29 witness: five tokens, max_tokens = overlap = 2: the loop is still
\* running after MaxWindows windows, all of them the tokens 1 and 2.
C29_Witness ==
    /\ h_pc = "loop"
    /\ h_arg = [n |-> 5, max_tokens |-> 2, overlap |-> 2]
    /\ Len(h_res.windows) = MaxWindows
    /\ \A k \in DOMAIN h_res.windows : h_res.windows[k] = <<1, 2>>
    /\ h_res.i < h_arg.n /\ h_res.i + h_arg.max_tokens < h_arg.n

(***************************************************************************)
(* SpecProcess: several runs of one process, up to their research stage    *)
(***************************************************************************)
MaxRuns == 2       \* runs the process makes, one after another or at once

Runs == 1..MaxRuns
AtStage(at, searches) == [at |-> at, searches |-> searches]

\* h_arg is the chunk file, as the store a run constructs from it; h_res[r]
\* is the store object of run r; h_pc[r] is where run r stands.
InitProcess ==
    /\ RunIdle
    /\ store = EvidenceStore(FALSE, <<>>)
    /\ h_arg \in Stores
    /\ h_res = [r \in Runs |-> EvidenceStore(FALSE, <<>>)]
    /\ h_pc = [r \in Runs |-> AtStage("idle", 0)]

\* run, lines 143-160: store = EvidenceStore(CHUNKS_JSONL), a new object
\* in every run.
StoreConstruct(r) ==
    /\ h_pc[r].at = "idle"
    /\ h_res' = [h_res EXCEPT ![r] = h_arg]
    /\ h_pc' = [h_pc EXCEPT ![r] = AtStage("research", 0)]
    /\ UNCHANGED <<h_arg, store, runvars>>

\* run, lines 164-167: one search of run r on its store.
StoreSearch(r) ==
    /\ h_pc[r].at = "research"
    /\ h_pc[r].searches < MAX_QUERIES
    /\ \E q \in RunQueries :
          h_res' = [h_res EXCEPT ![r] =
                       search(TRUE, q, TOP_K, distance_threshold, h_res[r]).st]
    /\ h_pc' = [h_pc EXCEPT ![r].searches = @ + 1]
    /\ UNCHANGED <<h_arg, store, runvars>>

\* The research loop of run r is over.
StoreRunEnd(r) ==
    /\ h_pc[r].at = "research"
    /\ h_pc[r].searches >= 1
    /\ h_pc' = [h_pc EXCEPT ![r].at = "done"]
    /\ UNCHANGED <<h_arg, h_res, store, runvars>>

NextProcess ==
    \E r \in Runs : StoreConstruct(r) \/ StoreSearch(r) \/ StoreRunEnd(r)
SpecProcess == InitProcess /\ [][NextProcess]_vars

\* The runs whose store has read the chunk file.
Loaders == {r \in Runs : h_res[r].loads >= 1}

\* C19, as the claim states it: the chunk file is read at most once in the
\* process, by one store, whatever the number of runs and however they
\* interleave.
C19_LoadedOncePerProcess ==
    /\ \A r \in Runs : h_res[r].loads <= 1
    /\ Cardinality(Loaders) <= 1

(***************************************************************************)
(* SpecCite: merge, write and verify, the generator citing one label       *)
(***************************************************************************)
\* The result of query q with c items: found, with chunks of its own (and,
\* when shared, the first chunk of query 1 in place of its first); not
\* found when c = 0.
QueryResult(q, c, shared) ==
    IF c = 0 THEN SearchResult("not_found", NOT_FOUND, <<>>)
    ELSE SearchResult("found", "",
             [j \in 1..c |->
                 Evidence(IF shared /\ j = 1 THEN 0 ELSE (q - 1) * TOP_K + j - 1,
                          j, 30, 5)])

\* The generator's answer: a deliverable whose one action cites E<k>.
Citing(k) ==
    [script |-> [a \in 1..max_retries |-> "ok"],
     raw |-> [form |-> "json",
              payload |->
                  Deliverable(GoodSummary, GoodEmail,
                      JList(<<Action(Text("Friday"), Text("high"),
                                     JList(<<JStr(<<Label(k)>>)>>))>>),
                      AbsentKey)]]

NoCite ==
    [ro |-> NoResult, w |-> NoWrite, v |-> Verified("", "", <<>>, JNull)]

InitCite ==
    /\ RunIdle
    /\ store = EvidenceStore(FALSE, <<>>)
    /\ \E counts \in [1..MAX_QUERIES -> 0..TOP_K], shared \in BOOLEAN,
          k \in 1..(MAX_QUERIES * TOP_K + 1) :
         h_arg = [results |-> [q \in 1..MAX_QUERIES |->
                                  QueryResult(q, counts[q], shared)],
                  cite |-> k]
    /\ h_res = NoCite
    /\ h_pc = "start"

\* research_out = _merge_research_results(research_results)
CiteMerge ==
    /\ h_pc = "start"
    /\ h_res' = [h_res EXCEPT !.ro = _merge_research_results(h_arg.results)]
    /\ h_pc' = "merged"
    /\ UNCHANGED <<h_arg, store, runvars>>

\* writer_out = write_deliverable(task, research_out)
CiteWrite ==
    /\ h_pc = "merged"
    /\ h_res' = [h_res EXCEPT
                    !.w = write_deliverable(h_res.ro, Citing(h_arg.cite))]
    /\ h_pc' = "written"
    /\ UNCHANGED <<h_arg, store, runvars>>

\* verified = verify_deliverable(writer_out, research_out)
CiteVerify ==
    /\ h_pc = "written"
    /\ h_res' = [h_res EXCEPT
                    !.v = verify_deliverable(h_res.w.out, h_res.ro).res]
    /\ h_pc' = "verified"
    /\ UNCHANGED <<h_arg, store, runvars>>

NextCite == CiteMerge \/ CiteWrite \/ CiteVerify
SpecCite == InitCite /\ [][NextCite]_vars

\* The labels of the prompt's evidence context and of the sources, and the
\* issues of the two reference checks.
CiteVerified == h_pc = "verified" /\ h_res.w.out.status = "ok"
ShownLabels == {h_res.w.context[k].label : k \in DOMAIN h_res.w.context}
SourceLabels ==
    LET src == Get(h_res.w.out.deliverable, "sources").kids IN
    {Get(src[k].val, "evidence_ref") : k \in DOMAIN src}
RefIssues ==
    {k \in DOMAIN h_res.v.issues :
        h_res.v.issues[k].type \in {"invalid_evidence_ref",
                                    "unknown_evidence_refs"}}

\* C24: when the merged evidence has n > 8 items, the evidence context and
\* the sources hold the labels E1..E8 only, and an action citing E<k> with
\* 9 <= k <= n draws no issue from the global or the per-action reference
\* check and is passed, although E<k> is in neither; a label above E<n> is
\* blocked by both checks.
C24_LabelMismatch ==
    (CiteVerified /\ Len(h_res.ro.evidence) > 8) =>
        LET n == Len(h_res.ro.evidence)
            k == h_arg.cite
        IN /\ ShownLabels = {Label(i) : i \in 1..8}
           /\ SourceLabels = {JStr(<<Label(i)>>) : i \in 1..8}
           /\ (9 <= k /\ k <= n) =>
                 /\ RefIssues = {} /\ h_res.v.status = "ok"
                 /\ Label(k) \notin ShownLabels
                 /\ JStr(<<Label(k)>>) \notin SourceLabels
           /\ k > n =>
                 /\ h_res.v.status = "blocked"
                 /\ {h_res.v.issues[i].type : i \in RefIssues} =
                       {"invalid_evidence_ref", "unknown_evidence_refs"}

\* C24 witness: three queries with six items each, one chunk found by all
\* three: 16 items merged, an action citing E16, passed without an issue.
C24_Witness ==
    /\ CiteVerified
    /\ \A q \in 1..3 : Len(h_arg.results[q].evidence) = 6
    /\ Len(h_res.ro.evidence) = 16
    /\ h_arg.cite = 16
    /\ h_res.v.status = "ok" /\ h_res.v.issues = <<>>

(***************************************************************************)
(* retrieval/chunking.py: sections, blocks and chunks of a page            *)
(***************************************************************************)
\* A page is a sequence of lines, joined by newlines.  The kinds of line:
\* "sec", a dotted number, a space and text ("1.1 text"); "bare", a dotted
\* number and nothing else ("2.1"); "text"; "blank", the empty line;
\* "bullet" ("- item"); "indent", text after one space; "table", text with
\* a gap of two spaces.  id is the dotted number of a sec or bare line.
PLine(kind, id) == [kind |-> kind, id |-> id]

RECURSIVE Ascending(_)
Ascending(S) ==
    IF S = {} THEN <<>>
    ELSE LET m == CHOOSE x \in S : \A y \in S : x <= y
         IN <<m>> \o Ascending(S \ {m})

\* SECTION_ID_RE.finditer: the lines that start with a dotted number and
\* whitespace; the newline after a bare number is whitespace, the end of
\* the text is not.
finditer(text) ==
    Ascending({i \in DOMAIN text :
                 \/ text[i].kind = "sec"
                 \/ text[i].kind = "bare" /\ i < Len(text)})

\* text[lo..hi].strip(), as a span of lines: the blank lines at both ends
\* go (an empty span has hi < lo).
strip_span(text, lo, hi) ==
    LET nb == {i \in lo..hi : text[i].kind # "blank"} IN
    IF nb = {} THEN [lo |-> lo, hi |-> lo - 1]
    ELSE [lo |-> CHOOSE i \in nb : \A j \in nb : i <= j,
          hi |-> CHOOSE i \in nb : \A j \in nb : j <= i]

Section(id, span) == [section |-> id, lo |-> span.lo, hi |-> span.hi]

\* Mutant of _split_by_sections: the first section starts at the top of
\* the page.
_split_by_sections_from_top(text) ==
    LET matches == finditer(text) IN
    IF matches = <<>>
    THEN <<Section("NO_SECTION", strip_span(text, 1, Len(text)))>>
    ELSE [i \in DOMAIN matches |->
            LET start == IF i = 1 THEN 1 ELSE matches[i]
                end == IF i + 1 <= Len(matches) THEN matches[i + 1]
                       ELSE Len(text) + 1
            IN Section(text[matches[i]].id, strip_span(text, start, end - 1))]

\* _split_by_sections: the sections as (id, span of lines).
_split_by_sections(text) ==
    LET matches == finditer(text) IN
    IF matches = <<>>
    THEN <<Section("NO_SECTION", strip_span(text, 1, Len(text)))>>
    ELSE [i \in DOMAIN matches |->
            LET start == matches[i]
                end == IF i + 1 <= Len(matches) THEN matches[i + 1]
                       ELSE Len(text) + 1
            IN Section(text[start].id, strip_span(text, start, end - 1))]

\* _split_section_into_blocks on the lines of a section: a block is the
\* sequence of its lines.  strip() took the space off the section's first
\* line.
line_kind(text, sec, j) ==
    IF j = sec.lo /\ text[j].kind = "indent" THEN "text" ELSE text[j].kind
run_end(text, sec, i, kinds) ==
    CHOOSE e \in i..sec.hi :
        /\ \A k \in (i + 1)..e : line_kind(text, sec, k) \in kinds
        /\ e = sec.hi \/ line_kind(text, sec, e + 1) \notin kinds
RECURSIVE block_loop(_, _, _, _, _)
block_loop(text, sec, i, buffer, blocks) ==
    LET flushed == IF buffer # <<>> THEN Append(blocks, buffer) ELSE blocks
        run(e) == [k \in 1..(e - i + 1) |-> i + k - 1]
    IN IF i > sec.hi THEN flushed
       ELSE IF line_kind(text, sec, i) = "blank"
       THEN block_loop(text, sec, i + 1, <<>>, flushed)
       ELSE IF line_kind(text, sec, i) = "bullet"
       THEN LET e == run_end(text, sec, i, {"indent", "bullet"}) IN
            block_loop(text, sec, e + 1, <<>>, Append(flushed, run(e)))
       ELSE IF line_kind(text, sec, i) = "table"
       THEN LET e == run_end(text, sec, i, {"table"}) IN
            block_loop(text, sec, e + 1, <<>>, Append(flushed, run(e)))
       ELSE block_loop(text, sec, i + 1, Append(buffer, i), blocks)
_split_section_into_blocks(text, sec) == block_loop(text, sec, sec.lo, <<>>, <<>>)

\* _token_windows as a function of the number of tokens, for overlap <
\* max_tokens.
RECURSIVE token_windows_loop(_, _, _, _)
token_windows_loop(n, i, max_tokens, overlap) ==
    IF i >= n THEN <<>>
    ELSE IF i + max_tokens >= n THEN <<window_tokens(n, i, max_tokens)>>
    ELSE <<window_tokens(n, i, max_tokens)>>
         \o token_windows_loop(n, next_start(i, max_tokens, overlap),
                               max_tokens, overlap)
_token_windows(n, max_tokens, overlap) ==
    token_windows_loop(n, 0, max_tokens, overlap)

\* The chunks of one section in dynamic_chunk_page: one per window of each
\* block, a line counting as one token; lines are the lines of the page
\* the chunk's text comes from.
Chunk(lines, section) == [lines |-> lines, section |-> section]
RECURSIVE block_chunks(_, _, _, _)
block_chunks(blocks, section, max_tokens, overlap) ==
    IF blocks = <<>> THEN <<>>
    ELSE LET block == Head(blocks)
             ws == _token_windows(Len(block), max_tokens, overlap)
         IN [w \in DOMAIN ws |->
                Chunk([t \in DOMAIN ws[w] |-> block[ws[w][t]]], section)]
            \o block_chunks(Tail(blocks), section, max_tokens, overlap)
section_chunks(text, sec, max_tokens, overlap) ==
    block_chunks(_split_section_into_blocks(text, sec), sec.section,
                 max_tokens, overlap)

(***************************************************************************)
(* SpecChunk: dynamic_chunk_page, one section per step                     *)
(***************************************************************************)
MaxLines == 4        \* lines of a page
PageMaxTokens == 2   \* max_tokens of the harness, in lines
PageOverlap == 1     \* overlap of the harness, in lines

PLines ==
    { PLine("sec", "1.1"), PLine("sec", "1.2"), PLine("bare", "2.1"),
      PLine("text", ""), PLine("blank", ""), PLine("bullet", ""),
      PLine("indent", ""), PLine("table", "") }

InitChunk ==
    /\ RunIdle
    /\ store = EvidenceStore(FALSE, <<>>)
    /\ \E len \in 0..MaxLines : \E text \in [1..len -> PLines] :
         h_arg = [text |-> text, max_tokens |-> PageMaxTokens,
                  overlap |-> PageOverlap]
    /\ h_res = [sections |-> <<>>, k |-> 0, chunks |-> <<>>]
    /\ h_pc = "start"

\* sections = _split_by_sections(page_text)
SplitPage ==
    /\ h_pc = "start"
    /\ h_res' = [h_res EXCEPT !.sections = _split_by_sections(h_arg.text)]
    /\ h_pc' = "sections"
    /\ UNCHANGED <<h_arg, store, runvars>>

\* One pass of the loop over the sections; after the last one the chunks
\* are returned.
ChunkSection ==
    /\ h_pc = "sections"
    /\ h_res.k < Len(h_res.sections)
    /\ h_res' = [h_res EXCEPT
                    !.k = @ + 1,
                    !.chunks = @ \o section_chunks(h_arg.text,
                                       h_res.sections[h_res.k + 1],
                                       h_arg.max_tokens, h_arg.overlap)]
    /\ h_pc' = IF h_res.k + 1 = Len(h_res.sections) THEN "done"
               ELSE "sections"
    /\ UNCHANGED <<h_arg, store, runvars>>

NextChunk == SplitPage \/ ChunkSection
SpecChunk == InitChunk /\ [][NextChunk]_vars

\* The lines of the page that start a section, the lines with text, the
\* lines of a section and the lines some chunk holds.
MatchLines ==
    {i \in DOMAIN h_arg.text :
        \/ h_arg.text[i].kind = "sec"
        \/ h_arg.text[i].kind = "bare" /\ i # Len(h_arg.text)}
FirstMatch == CHOOSE i \in MatchLines : \A j \in MatchLines : i <= j
TextLines == {i \in DOMAIN h_arg.text : h_arg.text[i].kind # "blank"}
LinesOf(sec) == sec.lo..sec.hi
ChunkLines(section) ==
    UNION {Range(h_res.chunks[c].lines) :
             c \in {d \in DOMAIN h_res.chunks :
                      h_res.chunks[d].section = section}}
AllChunkLines ==
    UNION {Range(h_res.chunks[c].lines) : c \in DOMAIN h_res.chunks}

\* C30: a page without a section-number line is one section NO_SECTION
\* holding all its text.  On a page with such lines there is one section
\* per section-number line, named by it and starting at it; the first one
\* starts at the first such line, so that the lines before it are in no
\* section and in no chunk; each section ends before the next one starts,
\* with nothing but blank lines between them, and every line with text
\* from the first section-number line to the end of the page is in a
\* section, and in a chunk that carries that section's name.
C30_SectionsFromFirstMatch ==
    /\ h_pc \in {"sections", "done"} =>
          LET ss == h_res.sections IN
          /\ MatchLines = {} =>
                /\ Len(ss) = 1 /\ ss[1].section = "NO_SECTION"
                /\ TextLines \subseteq LinesOf(ss[1])
                /\ LinesOf(ss[1]) \subseteq DOMAIN h_arg.text
          /\ MatchLines # {} =>
                /\ Len(ss) = Cardinality(MatchLines)
                /\ ss[1].lo = FirstMatch
                /\ \A k \in DOMAIN ss :
                      /\ ss[k].lo \in MatchLines
                      /\ ss[k].section = h_arg.text[ss[k].lo].id
                      /\ LinesOf(ss[k]) \cap (1..(FirstMatch - 1)) = {}
                /\ \A k \in 1..(Len(ss) - 1) :
                      /\ ss[k].hi < ss[k + 1].lo
                      /\ \A i \in (ss[k].hi + 1)..(ss[k + 1].lo - 1) :
                            i \notin TextLines
                /\ \A i \in TextLines :
                      i >= FirstMatch => \E k \in DOMAIN ss : i \in LinesOf(ss[k])
    /\ h_pc = "done" =>
          /\ MatchLines = {} =>
                /\ AllChunkLines = TextLines
                /\ ChunkLines("NO_SECTION") = TextLines
          /\ MatchLines # {} =>
                /\ AllChunkLines = {i \in TextLines : i >= FirstMatch}
                /\ \A k \in DOMAIN h_res.sections :
                      LinesOf(h_res.sections[k]) \cap TextLines
                          \subseteq ChunkLines(h_res.sections[k].section)

\* C30 witness: a line of text, section 1.1, a blank line, section 1.2:
\* two sections, two chunks, the first line in neither.
C30_Witness ==
    /\ h_pc = "done"
    /\ h_arg.text = <<PLine("text", ""), PLine("sec", "1.1"),
                      PLine("blank", ""), PLine("sec", "1.2")>>
    /\ h_res.sections = <<[section |-> "1.1", lo |-> 2, hi |-> 2],
                          [section |-> "1.2", lo |-> 4, hi |-> 4]>>
    /\ h_res.chunks = <<Chunk(<<2>>, "1.1"), Chunk(<<4>>, "1.2")>>

=============================================================================
